---- MODULE Spec2Model ----
(***************************************************************************)
(* Model of the go-slippi frame assembler (SlpParser, parser.go) fed with  *)
(* the events decoded by parsePayload (dolphin_connection.go).             *)
(*                                                                         *)
(* Go values are represented as follows.                                   *)
(*   - a pointer or nilable value is a sequence: <<>> is nil, <<v>> points *)
(*     to v;                                                               *)
(*   - a Go map is a function whose DOMAIN is the set of present keys;     *)
(*   - the Players and Followers maps of a FrameEntry are reference        *)
(*     values: a FrameEntry holds a reference (<<>> for the nil map of the *)
(*     zero FrameEntry, <<n>> for the map made by getFrame for frame n)    *)
(*     and the contents live in heapPlayers / heapFollowers, so that two   *)
(*     copies of a FrameEntry share their maps as they do in Go;           *)
(*   - a semver.Version is the triple <<Major, Minor, Patch>>.             *)
(***************************************************************************)
EXTENDS Integers, Sequences, FiniteSets, TLC

(***************************************************************************)
(* Bounds of the model.                                                    *)
(***************************************************************************)
\* number of consecutive frame numbers, starting at FirstFrame, that frame
\* updates, item updates and bookends may carry
MaxFrames == 2
\* largest number of events handled between two Reset calls
MaxEvents == 4
\* largest number of handler channels attached to the parser
MaxHandlers == 1
\* largest number of events of a raw region after the event payloads event
MaxRawEvents == 3
\* largest number of SetInclude calls on a reader
MaxSetIncludes == 2
\* largest number of handler channels attached to the event bus
MaxSubscriptions == 2
\* largest number of goroutines the Trigger calls on the event bus start
MaxGoroutines == 3
\* largest number of RemoveHandler calls
MaxRemoves == 1
\* largest number of calls that add or remove calculators
MaxGameCalls == 3
\* largest cursor of a message from Dolphin
MaxCursor == 2
\* largest number of results the reader sends to ParseReplay
MaxResults == 3

(***************************************************************************)
(* Program constants.                                                      *)
(***************************************************************************)
MaxRollbackFrames == 7

\* ParserEvent (iota)
Started == 0
Frame == 1
FinalizedFrame == 2
RollbackFrame == 3
Ended == 4

\* PlayerType (iota)
Human == 0
CPU == 1
Demo == 2
Empty == 3

\* Command bytes handled by SlpParser.handleEvent
CmdGameStart == 54
CmdPreFrameUpdate == 55
CmdPostFrameUpdate == 56
CmdGameEnd == 57
CmdItemUpdate == 59
CmdFrameBookend == 60

\* FrameUpdateType
Pre == "pre"
Post == "post"

\* the sentinel "no frame seen yet" of NewSlpParser, and the first frame
NoFrameYet == -124
FirstFrame == -123

\* the in-game major scene tested by handleFrameBookend
InGameScene == 8

(***************************************************************************)
(* Generic helpers for Go values.                                          *)
(***************************************************************************)
NULL == <<>>
Ptr(v) == <<v>>
Deref(ptr) == ptr[1]

EmptyMap == [k \in {} |-> NULL]
MapPut(m, k, v) == [x \in (DOMAIN m) \cup {k} |-> IF x = k THEN v ELSE m[x]]

RECURSIVE SumSeq(_)
SumSeq(s) == IF s = <<>> THEN 0 ELSE Head(s) + SumSeq(Tail(s))

\* int8(x) for a uint8 x
Int8(x) == IF x >= 128 THEN x - 256 ELSE x

(***************************************************************************)
(* semver comparison of <<Major, Minor, Patch>> triples.                   *)
(***************************************************************************)
VersionCompare(v, w) ==
    IF v[1] # w[1] THEN (IF v[1] < w[1] THEN -1 ELSE 1)
    ELSE IF v[2] # w[2] THEN (IF v[2] < w[2] THEN -1 ELSE 1)
    ELSE IF v[3] # w[3] THEN (IF v[3] < w[3] THEN -1 ELSE 1)
    ELSE 0

\* a strict comparison in place of GTE
GTE_Strict(v, w) == VersionCompare(v, w) > 0

GTE(v, w) == VersionCompare(v, w) >= 0

\* a comparison that takes every version for one up to w
LTE_Always(v, w) == TRUE

LTE(v, w) == VersionCompare(v, w) <= 0

(***************************************************************************)
(* Inputs: the payloads parsePayload can hand to the parser.               *)
(***************************************************************************)
FrameNumbers == FirstFrame .. (FirstFrame + MaxFrames - 1)

\* a frame number beyond the rollback window of FirstFrame, for bookends
FarFrame == FirstFrame + MaxRollbackFrames + 1

\* getPlayerData of parsePayload: the PlayerInfo of slot playerIndex
getPlayerData(raw, playerIndex) ==
    [ Index |-> 0,
      Port |-> 1,
      CharacterID |-> raw.Characters[playerIndex + 1],
      PlayerType |-> raw.Types[playerIndex + 1] ]

\* parsePayload, case GameStart
parseGameStart(raw) ==
    [ Version |-> raw.Version,
      Players |-> [ i \in 1..4 |-> getPlayerData(raw, i - 1) ],
      MajorScene |-> raw.MajorScene ]

\* the raw GameStart payloads (only the bytes the parser reads): replay
\* versions on both sides of the 1.6.0 and 2.2.0 thresholds, the in-game
\* scene and another one, and one, two or three non-Empty slots
RawGameStart(version, majorScene, types) ==
    [ Version |-> version, MajorScene |-> majorScene, Types |-> types,
      Characters |-> <<2, 9, 2, 9>> ]

RawGameStarts ==
    { RawGameStart(<<1, 5, 0>>, InGameScene, <<Human, CPU, Empty, Empty>>),
      RawGameStart(<<1, 6, 0>>, InGameScene, <<Human, Empty, Empty, Empty>>),
      RawGameStart(<<2, 2, 0>>, InGameScene, <<Human, CPU, Empty, Empty>>),
      RawGameStart(<<3, 0, 0>>, InGameScene, <<Human, Empty, Empty, Empty>>),
      RawGameStart(<<3, 0, 0>>, InGameScene, <<Human, CPU, Empty, Empty>>),
      RawGameStart(<<3, 0, 0>>, 2, <<Human, Empty, Human, CPU>>) }

GameStartPayloads == { parseGameStart(raw) : raw \in RawGameStarts }

\* parsePayload, case PreFrameUpdate
PreFrameUpdatePayload(frameNumber, playerIndex, isFollower, randomSeed) ==
    [ FrameNumber |-> frameNumber, PlayerIndex |-> playerIndex,
      IsFollower |-> isFollower, RandomSeed |-> randomSeed ]

\* player 0 sends every frame, with two different contents for FirstFrame;
\* player 1 and the follower of player 0 send FirstFrame
PreFrameUpdatePayloads ==
    { PreFrameUpdatePayload(n, 0, FALSE, 1) : n \in FrameNumbers }
    \cup
    { PreFrameUpdatePayload(FirstFrame, 0, FALSE, 2),
      PreFrameUpdatePayload(FirstFrame, 1, FALSE, 1),
      PreFrameUpdatePayload(FirstFrame, 0, TRUE, 1) }

\* parsePayload, case PostFrameUpdate
PostFrameUpdatePayload(frameNumber, playerIndex, isFollower, internalCharacterID) ==
    [ FrameNumber |-> frameNumber, PlayerIndex |-> playerIndex,
      IsFollower |-> isFollower, InternalCharacterID |-> internalCharacterID ]

PostFrameUpdatePayloads ==
    { PostFrameUpdatePayload(n, 0, FALSE, 19) : n \in FrameNumbers }
    \cup
    { PostFrameUpdatePayload(FirstFrame, 0, FALSE, 7),
      PostFrameUpdatePayload(FirstFrame, 1, FALSE, 7),
      PostFrameUpdatePayload(FirstFrame, 0, TRUE, 0) }

\* parsePayload, case ItemUpdate
ItemUpdatePayloads == { [ FrameNumber |-> FirstFrame ] }

\* parsePayload, case FrameBookend: a bookend of frame n reports n - 1 or n
\* as finalized; a bookend of FarFrame reports no frame, FirstFrame (outside
\* the rollback window) or FirstFrame + 1 (just inside)
FrameBookendPayloads ==
    { [ FrameNumber |-> n, LatestFinalizedFrame |-> n - d ] :
        n \in FrameNumbers, d \in {0, 1} }
    \cup
    { [ FrameNumber |-> FarFrame, LatestFinalizedFrame |-> l ] :
        l \in { NoFrameYet, FirstFrame, FarFrame - MaxRollbackFrames } }

\* parsePayload, case GameEnd
GameEndPayloads == { [ GameEndMethod |-> 2, LRASInitiator |-> -1 ] }

(***************************************************************************)
(* The state.                                                              *)
(***************************************************************************)
VARIABLES
    Options,             \* SlpParser.Options
    Frames,              \* SlpParser.Frames: frame number -> FrameEntry
    heapPlayers,         \* contents of the Players maps made by getFrame
    heapFollowers,       \* contents of the Followers maps made by getFrame
    Rollbacks,           \* SlpParser.Rollbacks
    gameInfo,            \* SlpParser.gameInfo (pointer)
    GameEnd,             \* SlpParser.GameEnd (pointer)
    latestFrameIndex,    \* SlpParser.latestFrameIndex
    lastFinalizedFrame,  \* SlpParser.lastFinalizedFrame
    gameInfoComplete,    \* SlpParser.gameInfoComplete
    emitted,             \* the Trigger calls made while handling lastEvent
    err,                 \* the error returned by handleEvent for lastEvent
    panicked,            \* the goroutine died on a nil dereference
    lastEvent,           \* the event handled last (pointer), nil after Reset
    hadEntry,            \* history: lastEvent's frame number was stored before
    lastPreRetransmitted, \* history: hadEntry of the last ledger pre-frame
    finalizedLog,        \* history: frame numbers of all FinalizedFrame emissions
    startedCount,        \* history: number of Started emissions
    endedBefore,         \* history: Ended was emitted before lastEvent
    ledgerPrior,         \* history: value of each ledger snapshot when taken
    nEvents,             \* history: number of events handled since Reset
    nonEmptySlots,       \* history: the non-Empty slots of the last GameStart
    stream,              \* history: the events since Reset are none
                         \* ("empty"), a GameStart followed by events
                         \* other than GameStart ("replay"), or "other"
    latePostSeen,        \* history: a post-frame update with frame > -123
                         \* was handled since Reset
    returned,            \* ParseReplay has returned
    lastGameStart,       \* history: the payload of the last GameStart
                         \* (pointer), nil after Reset
    handlers,            \* SlpParser.handlers: ParserEvent -> channels
    emittedLog,          \* history: event and frame number of every Trigger
                         \* call since Reset
    discarded,           \* history: the summary of the pass the last
                         \* step, a Reset, discarded (pointer), nil when
                         \* the last step was no Reset
    unknownCommand       \* history: the reader met a command byte that
                         \* is absent from PayloadSizes

\* the reader (SlpReader, its source, the goroutine of YieldEvents and the
\* unbounded channel between the reader and its consumer)
VARIABLES
    reader,              \* the SlpReader (pointer), nil before NewSlpReader
    Source,              \* SlpReader.Source: the bytes of the data source
                         \* from offset RawStart on, and the offset of the
                         \* next Read
    yield,               \* the goroutine of YieldEvents: where it is, its
                         \* variable position, the command on which
                         \* stopYielding returns true
    channel,             \* MakeUnboundedChannel: sendQueue, whether the
                         \* sending side and the receiving side are closed
    received,            \* history: the results the consumer has received
    rawEvents,           \* history: the events the raw region is made of
    commandReads,        \* history: the offsets at which the goroutine
                         \* has read a command byte
    lastSetInclude,      \* history: command, flag, result and the include
                         \* set before of the last step if it was a call
                         \* of SetInclude (pointer)
    nSetInclude,         \* history: the number of SetInclude calls
    sentLog              \* history: the results the goroutine of
                         \* YieldEvents has sent on send, in order

\* the event bus (the goroutines Trigger starts and the subscribers at the
\* other end of the handler channels)
VARIABLES
    goroutines,          \* the goroutines Trigger has started that have not
                         \* sent yet: handler channel, event, payload, and
                         \* the index of the channel in the handler list
    inbox,               \* history: handler channel -> the values its
                         \* subscriber has received, in order
    listening,           \* the handler channels whose subscriber is
                         \* receiving
    triggerLog,          \* history: event, payload and handler list of
                         \* every Trigger call
    removeLog            \* history: event, channel and handler list before
                         \* of every RemoveHandler call

\* the game (SlpGame and its calculators)
VARIABLES
    calculators,         \* SlpGame.calculators
    gameCalls            \* history: the calls of AddCalculator,
                         \* RemoveCalculator and RemoveAllCalculators,
                         \* each with the handler lists before it

\* the connection to Dolphin
VARIABLES
    ConnectionStatus,    \* DolphinConnection.ConnectionStatus
    GameCursor,          \* DolphinConnection.GameCursor
    serving,             \* the goroutine of Connect runs
    lastMessage,         \* history: the message of the last step if the
                         \* step received one (pointer), with the cursor
                         \* before
    lastSent             \* history: the events the last step sent on
                         \* c.send

\* the game info of the game (SlpGame.GetGameInfo and the goroutines that
\* carry the game info from the parser to the game)
VARIABLES
    SlpGame_gameInfo,    \* SlpGame.gameInfo
    startedDelivered,    \* the goroutine Trigger(Started) has started for
                         \* gameInfoChan has sent its payload
    getGameInfo          \* the call of SlpGame.GetGameInfo: where it is,
                         \* the GameInfo and the error it has returned

\* the parser state the subscription operations leave alone
parserRest ==
        << Options, Frames, heapPlayers, heapFollowers, Rollbacks, gameInfo,
           GameEnd, latestFrameIndex, lastFinalizedFrame, gameInfoComplete,
           emitted, err, lastEvent, hadEntry, lastPreRetransmitted,
           finalizedLog, startedCount, endedBefore, ledgerPrior,
           nEvents, nonEmptySlots, stream, latePostSeen, returned, lastGameStart,
           emittedLog, unknownCommand >>

parserVars == << parserRest, handlers, panicked, discarded >>

readerVars == << reader, Source, yield, channel, received, rawEvents,
                 commandReads, lastSetInclude, nSetInclude, sentLog >>

busVars == << goroutines, inbox, listening, triggerLog, removeLog >>

gameVars == << calculators, gameCalls >>

dolphinVars == << ConnectionStatus, GameCursor, serving, lastMessage,
                 lastSent >>

\* everything outside the parser, outside the reader, outside the event
\* bus
infoVars == << SlpGame_gameInfo, startedDelivered, getGameInfo >>

sideVars == << readerVars, busVars, gameVars, dolphinVars, infoVars >>

outsideReader == << parserVars, busVars, gameVars, dolphinVars, infoVars >>

outsideBus == << readerVars, gameVars, dolphinVars, infoVars >>

vars == << parserVars, sideVars >>

\* Rollbacks{...} of NewSlpParser and Reset
NewRollbacks ==
    [ Frames |-> EmptyMap,
      Count |-> 0,
      Lengths |-> <<>>,
      playerIndex |-> -1,
      lastFrameWasRollback |-> FALSE,
      currentRollbackLength |-> 0 ]

\* the zero value of FrameEntry (what a map lookup of an absent key returns)
ZeroFrameEntry ==
    [ Players |-> NULL, Followers |-> NULL, Items |-> <<>>,
      IsTransferComplete |-> FALSE ]

\* the value of a FrameEntry with its maps read through the references
DeepFrame(frame, hp, hf) ==
    [ Players |-> IF frame.Players = NULL THEN EmptyMap
                  ELSE hp[Deref(frame.Players)],
      Followers |-> IF frame.Followers = NULL THEN EmptyMap
                    ELSE hf[Deref(frame.Followers)],
      Items |-> frame.Items,
      IsTransferComplete |-> frame.IsTransferComplete ]

(***************************************************************************)
(* The methods of SlpParser, as functions of a machine record m that holds *)
(* the parser's fields, the heap and the outcome of the current            *)
(* handleEvent call.                                                       *)
(***************************************************************************)
Machine ==
    [ Frames |-> Frames,
      heapPlayers |-> heapPlayers,
      heapFollowers |-> heapFollowers,
      Rollbacks |-> Rollbacks,
      gameInfo |-> gameInfo,
      GameEnd |-> GameEnd,
      latestFrameIndex |-> latestFrameIndex,
      lastFinalizedFrame |-> lastFinalizedFrame,
      gameInfoComplete |-> gameInfoComplete,
      emitted |-> <<>>,
      err |-> "nil",
      panicked |-> FALSE ]

\* Trigger: the emission of event with payload; frame is the key of
\* p.Frames the payload was read from (nil for Started and Ended)
Trigger(m, event, frame, payload) ==
    [ m EXCEPT !.emitted =
        Append(@, [ event |-> event, frame |-> frame, payload |-> payload ]) ]

\* Rollbacks.checkIfRollbackFrame; frame is a pointer to a FrameEntry
checkIfRollbackFrame(r, frameIndex, frame, playerIndex) ==
    IF r.playerIndex # -1 /\ r.playerIndex # Int8(playerIndex)
    THEN [ r |-> r, result |-> FALSE ]
    ELSE
      LET r1 == [ r EXCEPT !.playerIndex =
                    IF @ = -1 THEN Int8(playerIndex) ELSE @ ]
          r2 == IF frame # NULL
                THEN [ r1 EXCEPT
                         !.Frames = MapPut(@, frameIndex,
                             Append(IF frameIndex \in DOMAIN @
                                    THEN @[frameIndex] ELSE <<>>,
                                    Deref(frame))),
                         !.Count = @ + 1,
                         !.currentRollbackLength = @ + 1,
                         !.lastFrameWasRollback = TRUE ]
                ELSE IF r1.lastFrameWasRollback
                THEN [ r1 EXCEPT
                         !.Lengths = Append(@, r1.currentRollbackLength),
                         !.currentRollbackLength = 0,
                         !.lastFrameWasRollback = FALSE ]
                ELSE r1
      IN [ r |-> r2, result |-> r2.lastFrameWasRollback ]

\* getFrame: the stored FrameEntry, or a new one with freshly made maps
getFrame(m, frameNumber) ==
    IF frameNumber \in DOMAIN m.Frames
    THEN [ frame |-> m.Frames[frameNumber], m |-> m ]
    ELSE [ frame |-> [ Players |-> Ptr(frameNumber),
                       Followers |-> Ptr(frameNumber),
                       Items |-> <<>>,
                       IsTransferComplete |-> FALSE ],
           m |-> [ m EXCEPT
                     !.heapPlayers = MapPut(@, frameNumber, EmptyMap),
                     !.heapFollowers = MapPut(@, frameNumber, EmptyMap) ] ]

\* completeGameInfo without its early return
completeGameInfo_NoGuard(m) ==
    Trigger([ m EXCEPT !.gameInfoComplete = TRUE ], Started, NULL, m.gameInfo)

\* completeGameInfo
completeGameInfo(m) ==
    IF m.gameInfoComplete
    THEN m
    ELSE Trigger([ m EXCEPT !.gameInfoComplete = TRUE ],
                 Started, NULL, m.gameInfo)

\* the strict-mode loop of finalizeFrames over gameInfo.Players, from the
\* i-th player on: the error it returns, "nil" if it runs to its end
RECURSIVE checkPlayers(_, _, _)
checkPlayers(players, i, framePlayers) ==
    IF i > Len(players)
    THEN "nil"
    ELSE
      LET player == players[i] IN
      IF player.Index \notin DOMAIN framePlayers
      THEN IF Len(players) > 2
           THEN checkPlayers(players, i + 1, framePlayers)
           ELSE "MissingFrameUpdate"
      ELSE IF \/ framePlayers[player.Index].Pre = NULL
              \/ framePlayers[player.Index].Post = NULL
      THEN "MissingFrameUpdate"
      ELSE checkPlayers(players, i + 1, framePlayers)

\* finalizeFrames jumping to its target frame
toFinalizeOf_Target(m, frameNumber) == frameNumber

\* finalizeFrames passing over the frames that are not stored
toFinalizeOf_SkipGap(m, frameNumber) ==
    LET above == { n \in DOMAIN m.Frames :
                     n > m.lastFinalizedFrame /\ n <= frameNumber }
    IN  IF above = {}
        THEN m.lastFinalizedFrame + 1
        ELSE CHOOSE n \in above : \A k \in above : n <= k

\* the frame finalizeFrames(frameNumber) finalizes next
toFinalizeOf(m, frameNumber) == m.lastFinalizedFrame + 1

\* finalizeFrames
RECURSIVE finalizeFrames(_, _)
finalizeFrames(m, frameNumber) ==
    IF ~(m.lastFinalizedFrame < frameNumber)
    THEN m
    ELSE
      LET toFinalize == toFinalizeOf(m, frameNumber) IN
      IF toFinalize \notin DOMAIN m.Frames
      THEN m
      ELSE
        LET frame == m.Frames[toFinalize] IN
        IF Options.Strict /\ m.gameInfo = NULL
        THEN [ m EXCEPT !.panicked = TRUE ]
        ELSE
          LET e == IF Options.Strict
                   THEN checkPlayers(Deref(m.gameInfo).Players, 1,
                                     m.heapPlayers[Deref(frame.Players)])
                   ELSE "nil"
          IN IF e # "nil"
             THEN [ m EXCEPT !.err = e ]
             ELSE finalizeFrames(
                    [ Trigger(m, FinalizedFrame, Ptr(toFinalize), frame)
                        EXCEPT !.lastFinalizedFrame = toFinalize ],
                    frameNumber)

\* handleGameStart keeping the Empty slots
handleGameStart_KeepEmpty(m, payload) ==
    LET m1 == [ m EXCEPT !.gameInfo =
                  Ptr([ Version |-> payload.Version,
                        Players |-> payload.Players,
                        MajorScene |-> payload.MajorScene ]) ]
    IN IF GTE(payload.Version, <<1, 6, 0>>)
       THEN completeGameInfo(m1)
       ELSE m1

\* handleGameStart
handleGameStart(m, payload) ==
    LET players == SelectSeq(payload.Players,
                             LAMBDA player : player.PlayerType # Empty)
        m1 == [ m EXCEPT !.gameInfo =
                  Ptr([ Version |-> payload.Version,
                        Players |-> players,
                        MajorScene |-> payload.MajorScene ]) ]
    IN IF GTE(payload.Version, <<1, 6, 0>>)
       THEN completeGameInfo(m1)
       ELSE m1

\* handleFrameUpdate.  Each step of the method is a local operator of the
\* machine the steps before it have produced.
handleFrameUpdate(m, updateType, payload) ==
    LET frameNumber == payload.FrameNumber
        isFollower == payload.IsFollower
        playerIndex == payload.PlayerIndex
        \* currentFrame := p.Frames[frameNumber]
        CurrentFrame(m1) ==
            IF frameNumber \in DOMAIN m1.Frames
            THEN m1.Frames[frameNumber]
            ELSE ZeroFrameEntry
        \* the outcome c of checkIfRollbackFrame(frameNumber, &currentFrame, ...)
        Checked(m1, currentFrame, c) ==
            IF c.result
            THEN Trigger([ m1 EXCEPT !.Rollbacks = c.r ],
                         RollbackFrame, Ptr(frameNumber), currentFrame)
            ELSE [ m1 EXCEPT !.Rollbacks = c.r ]
        \* case Pre: the rollback ledger, for a non-follower
        Ledger(m1, currentFrame) ==
            IF updateType = Pre /\ ~isFollower
            THEN Checked(m1, currentFrame,
                         checkIfRollbackFrame(m1.Rollbacks, frameNumber,
                                              Ptr(currentFrame), playerIndex))
            ELSE m1
        \* the update written into the frame's map and the frame stored
        Install(m2, frame, ref) ==
            LET updates == IF isFollower THEN m2.heapFollowers[ref]
                           ELSE m2.heapPlayers[ref]
                old == IF playerIndex \in DOMAIN updates
                       THEN updates[playerIndex]
                       ELSE [ Pre |-> NULL, Post |-> NULL ]
                new == IF updateType = Pre
                       THEN [ old EXCEPT !.Pre = Ptr(payload) ]
                       ELSE [ old EXCEPT !.Post = Ptr(payload) ]
            IN IF isFollower
               THEN [ m2 EXCEPT
                        !.heapFollowers[ref] = MapPut(@, playerIndex, new),
                        !.Frames = MapPut(@, frameNumber, frame) ]
               ELSE [ m2 EXCEPT
                        !.heapPlayers[ref] = MapPut(@, playerIndex, new),
                        !.Frames = MapPut(@, frameNumber, frame) ]
        \* replays up to 2.2.0 emit and finalize here; later ones wait for
        \* the frame bookend
        Emit(m3, frame) ==
            IF m3.gameInfo # NULL /\ LTE(Deref(m3.gameInfo).Version, <<2, 2, 0>>)
            THEN finalizeFrames(
                   Trigger(m3, Frame, Ptr(frameNumber), m3.Frames[frameNumber]),
                   frameNumber - 1)
            ELSE [ m3 EXCEPT !.Frames[frameNumber] =
                     [ frame EXCEPT !.IsTransferComplete = FALSE ] ]
        \* p.latestFrameIndex = frameNumber, and the rest
        Located(g) ==
            Emit(Install(Ledger([ g.m EXCEPT !.latestFrameIndex = frameNumber ],
                                CurrentFrame(g.m)),
                         g.frame,
                         Deref(IF isFollower THEN g.frame.Followers
                               ELSE g.frame.Players)),
                 g.frame)
    IN Located(getFrame(m, frameNumber))

\* the character patch of handlePostFrameUpdate, applied to one player
patchCharacter(player, payload) ==
    IF player.Index = payload.PlayerIndex
    THEN IF payload.InternalCharacterID = 7
         THEN [ player EXCEPT !.CharacterID = 19 ]
         ELSE IF payload.InternalCharacterID = 19
         THEN [ player EXCEPT !.CharacterID = 18 ]
         ELSE player
    ELSE player

\* handlePostFrameUpdate
handlePostFrameUpdate(m, payload) ==
    LET \* frame > -123: the game info is complete
        Complete(m2) ==
            IF ~m2.panicked /\ payload.FrameNumber > -123
            THEN completeGameInfo(m2)
            ELSE m2
        \* frame <= -123: the character patch of every player
        Patch(m1) ==
            IF payload.FrameNumber <= -123
            THEN IF m1.gameInfo = NULL
                 THEN [ m1 EXCEPT !.panicked = TRUE ]
                 ELSE [ m1 EXCEPT !.gameInfo =
                          Ptr([ Deref(@) EXCEPT !.Players =
                                  [ i \in DOMAIN @ |->
                                      patchCharacter(@[i], payload) ] ]) ]
            ELSE m1
        Updated(m1) ==
            IF m1.err # "nil" \/ m1.gameInfoComplete
            THEN m1
            ELSE Complete(Patch(m1))
    IN Updated(handleFrameUpdate(m, Post, payload))

\* handleGameEnd
handleGameEnd(m, payload) ==
    LET Finalized(m1) ==
            IF m1.panicked
            THEN m1
            ELSE Trigger([ m1 EXCEPT !.GameEnd = Ptr(payload) ],
                         Ended, NULL, payload)
    IN Finalized(IF /\ m.latestFrameIndex > -124
                    /\ m.latestFrameIndex # m.lastFinalizedFrame
                 THEN finalizeFrames(m, m.latestFrameIndex)
                 ELSE m)

\* handleItemUpdate
handleItemUpdate(m, payload) ==
    LET g == getFrame(m, payload.FrameNumber)
        frame == [ g.frame EXCEPT !.Items = Append(@, payload) ]
    IN [ g.m EXCEPT !.Frames = MapPut(@, payload.FrameNumber, frame) ]

\* the window test applied in non-strict mode too
outsideRollbackWindow_NonStrict(latestFinalizedFrame, frameNumber) ==
    latestFinalizedFrame < frameNumber - MaxRollbackFrames

\* the strict-mode test with a window one frame too wide
outsideRollbackWindow_OffByOne(latestFinalizedFrame, frameNumber) ==
    /\ Options.Strict
    /\ latestFinalizedFrame < frameNumber - MaxRollbackFrames - 1

\* the strict-mode test of handleFrameBookend: latestFinalizedFrame is
\* older than the rollback window of frameNumber
outsideRollbackWindow(latestFinalizedFrame, frameNumber) ==
    /\ Options.Strict
    /\ latestFinalizedFrame < frameNumber - MaxRollbackFrames

\* handleFrameBookend finalizing through the bookend's own frame outside
\* the in-game scene
handleFrameBookend_OwnFrame(m, payload) ==
    LET latestFinalizedFrame == payload.LatestFinalizedFrame
        frameNumber == payload.FrameNumber
        Finalize(m1) ==
            IF m1.gameInfo = NULL
            THEN [ m1 EXCEPT !.panicked = TRUE ]
            ELSE
              LET validLatestFrame ==
                      Deref(m1.gameInfo).MajorScene = InGameScene
              IN IF validLatestFrame /\ latestFinalizedFrame >= -123
                 THEN IF outsideRollbackWindow(latestFinalizedFrame, frameNumber)
                      THEN [ m1 EXCEPT !.err = "RollbackWindowViolation" ]
                      ELSE finalizeFrames(m1, latestFinalizedFrame)
                 ELSE finalizeFrames(m1, frameNumber)
        Complete(gm, frame) ==
            Finalize(Trigger([ gm EXCEPT !.Frames = MapPut(@, frameNumber, frame) ],
                             Frame, Ptr(frameNumber), frame))
        Located(g) ==
            Complete(g.m, [ g.frame EXCEPT !.IsTransferComplete = TRUE ])
    IN Located(getFrame(m, frameNumber))

\* handleFrameBookend
handleFrameBookend(m, payload) ==
    LET latestFinalizedFrame == payload.LatestFinalizedFrame
        frameNumber == payload.FrameNumber
        Finalize(m1) ==
            IF m1.gameInfo = NULL
            THEN [ m1 EXCEPT !.panicked = TRUE ]
            ELSE
              LET validLatestFrame ==
                      Deref(m1.gameInfo).MajorScene = InGameScene
              IN IF validLatestFrame /\ latestFinalizedFrame >= -123
                 THEN IF outsideRollbackWindow(latestFinalizedFrame, frameNumber)
                      THEN [ m1 EXCEPT !.err = "RollbackWindowViolation" ]
                      ELSE finalizeFrames(m1, latestFinalizedFrame)
                 ELSE finalizeFrames(m1, frameNumber - MaxRollbackFrames)
        Complete(gm, frame) ==
            Finalize(Trigger([ gm EXCEPT !.Frames = MapPut(@, frameNumber, frame) ],
                             Frame, Ptr(frameNumber), frame))
        Located(g) ==
            Complete(g.m, [ g.frame EXCEPT !.IsTransferComplete = TRUE ])
    IN Located(getFrame(m, frameNumber))

\* handleEvent
handleEvent(m, event) ==
    IF event.Command = CmdGameStart
    THEN handleGameStart(m, event.Payload)
    ELSE IF event.Command = CmdPreFrameUpdate
    THEN handleFrameUpdate(m, Pre, event.Payload)
    ELSE IF event.Command = CmdPostFrameUpdate
    THEN handlePostFrameUpdate(m, event.Payload)
    ELSE IF event.Command = CmdGameEnd
    THEN handleGameEnd(m, event.Payload)
    ELSE IF event.Command = CmdItemUpdate
    THEN handleItemUpdate(m, event.Payload)
    ELSE IF event.Command = CmdFrameBookend
    THEN handleFrameBookend(m, event.Payload)
    ELSE m

(***************************************************************************)
(* History of a handleEvent call, read off its outcome.                    *)
(***************************************************************************)
\* the frame numbers of the emissions of event among s, in order
RECURSIVE FramesOf(_, _)
FramesOf(s, event) ==
    IF s = <<>>
    THEN <<>>
    ELSE IF Head(s).event = event
    THEN <<Deref(Head(s).frame)>> \o FramesOf(Tail(s), event)
    ELSE FramesOf(Tail(s), event)

\* the number of emissions of event among s
CountOf(s, event) == Cardinality({ i \in DOMAIN s : s[i].event = event })

HasFrameNumber(event) ==
    event.Command \in { CmdPreFrameUpdate, CmdPostFrameUpdate, CmdItemUpdate,
                        CmdFrameBookend }

\* event is a post-frame update with frame > -123
IsLatePost(event) ==
    IF event.Command = CmdPostFrameUpdate
    THEN event.Payload.FrameNumber > -123
    ELSE FALSE

\* event is a pre-frame update that checkIfRollbackFrame does not ignore
IsLedgerPre(event) ==
    /\ event.Command = CmdPreFrameUpdate
    /\ ~event.Payload.IsFollower
    /\ \/ Rollbacks.playerIndex = -1
       \/ Rollbacks.playerIndex = Int8(event.Payload.PlayerIndex)

(***************************************************************************)
(* The reader: SlpReader over a data source.  A byte of the source is a    *)
(* number; the source is modelled from offset RawStart on.                 *)
(***************************************************************************)
CmdMessageSplitter == 16             \* 0x10
CmdEventPayloads == 53               \* 0x35
CmdGeckoList == 61                   \* 0x3D

\* var rawStart int64 = 15
RawStart == 15

\* the payload sizes NewSlpReader learns from the event payloads event:
\* the size of that event itself (the size byte and three bytes for each
\* of the other commands) and the sizes of the commands of the replays
PayloadSizes ==
    ( CmdEventPayloads :> 10 ) @@ ( CmdPreFrameUpdate :> 2 )
      @@ ( CmdItemUpdate :> 1 ) @@ ( CmdGameEnd :> 1 )

\* the bytes after the raw region: the key of the metadata element, "U",
\* 8, "metadata"
Trailer == << 85, 8, 109 >>

\* the include set NewSlpReader builds
DefaultInclude ==
    [ command \in { CmdMessageSplitter } \cup (CmdEventPayloads..CmdGeckoList)
        |-> TRUE ]

\* the i-th event of a raw region: its command and a payload of the learned
\* size, whose bytes are i
RawEvent(command, i) ==
    [ Command |-> command,
      Payload |-> [ k \in 1..PayloadSizes[command] |-> i ] ]

\* the bytes of a sequence of events
RECURSIVE Encode(_)
Encode(events) ==
    IF events = <<>> THEN <<>>
    ELSE << Head(events).Command >> \o Head(events).Payload
           \o Encode(Tail(events))

\* the raw regions: the event payloads event and up to MaxRawEvents events
RawCommands == { CmdPreFrameUpdate, CmdItemUpdate, CmdGameEnd }

RawRegions ==
    { << RawEvent(CmdEventPayloads, 1) >>
        \o [ i \in DOMAIN commands |-> RawEvent(commands[i], i + 1) ] :
      commands \in UNION { [ 1..n -> RawCommands ] : n \in 0..MaxRawEvents } }

\* before NewSlpReader
NoReader ==
    /\ reader = NULL
    /\ Source = [ bytes |-> <<>>, offset |-> 0 ]
    /\ yield = [ pc |-> "idle", position |-> 0, stopOn |-> 0 ]
    /\ channel = [ sendQueue |-> <<>>, inClosed |-> FALSE,
                   outClosed |-> FALSE ]
    /\ received = <<>>
    /\ rawEvents = <<>>
    /\ commandReads = <<>>
    /\ lastSetInclude = NULL
    /\ nSetInclude = 0
    /\ sentLog = <<>>

\* the handler channels of AddHandler
Channels == { "sink", "other" }

\* no Trigger call yet: no goroutine, every subscriber receiving
NoGoroutines ==
    /\ goroutines = {}
    /\ inbox = [ h \in Channels |-> <<>> ]
    /\ listening = Channels
    /\ triggerLog = <<>>
    /\ removeLog = <<>>

\* ConnectionStatus (iota)
Disconnected == 0
Connecting == 1
Connected == 2

\* a game without calculators
NoCalculators ==
    /\ calculators = <<>>
    /\ gameCalls = <<>>

\* before newSlpGame and GetGameInfo
NoGame ==
    /\ SlpGame_gameInfo = NULL
    /\ startedDelivered = FALSE
    /\ getGameInfo = [ pc |-> "idle", result |-> NULL, err |-> "nil" ]

\* NewDolphinConnection()
NewDolphinConnection ==
    /\ ConnectionStatus = Disconnected
    /\ GameCursor = 0
    /\ serving = FALSE
    /\ lastMessage = NULL
    /\ lastSent = <<>>

(***************************************************************************)
(* Initial state: NewSlpParser(options).                                   *)
(***************************************************************************)
Init ==
    /\ Options \in [ Strict : BOOLEAN ]
    /\ Frames = EmptyMap
    /\ heapPlayers = EmptyMap
    /\ heapFollowers = EmptyMap
    /\ Rollbacks = NewRollbacks
    /\ gameInfo = NULL
    /\ GameEnd = NULL
    /\ latestFrameIndex = NoFrameYet
    /\ lastFinalizedFrame = NoFrameYet
    /\ gameInfoComplete = FALSE
    /\ emitted = <<>>
    /\ err = "nil"
    /\ panicked = FALSE
    /\ lastEvent = NULL
    /\ hadEntry = FALSE
    /\ lastPreRetransmitted = FALSE
    /\ finalizedLog = <<>>
    /\ startedCount = 0
    /\ endedBefore = FALSE
    /\ ledgerPrior = EmptyMap
    /\ nEvents = 0
    /\ nonEmptySlots = {}
    /\ stream = "empty"
    /\ latePostSeen = FALSE
    /\ returned = FALSE
    /\ lastGameStart = NULL
    /\ handlers = EmptyMap
    /\ emittedLog = <<>>
    /\ discarded = NULL
    /\ unknownCommand = FALSE
    /\ NoReader
    /\ NoGoroutines
    /\ NoCalculators
    /\ NewDolphinConnection
    /\ NoGame

(***************************************************************************)
(* One iteration of the loop of ParseReplay: handleEvent(event).  The loop *)
(* ends at the first error, and a panic ends the program.                  *)
(***************************************************************************)
\* the loop of ParseReplay has not ended; MaxEvents bounds its length
Running ==
    /\ ~panicked
    /\ ~returned
    /\ nEvents < MaxEvents

\* p.handleEvent(event) and the history of the call
HandleEvent(event) ==
    LET stored == /\ HasFrameNumber(event)
                  /\ event.Payload.FrameNumber \in DOMAIN Frames
        \* the parser after handleEvent(event), and the history of the call
        Handled(m) ==
            /\ Frames' = m.Frames
            /\ heapPlayers' = m.heapPlayers
            /\ heapFollowers' = m.heapFollowers
            /\ Rollbacks' = m.Rollbacks
            /\ gameInfo' = m.gameInfo
            /\ GameEnd' = m.GameEnd
            /\ latestFrameIndex' = m.latestFrameIndex
            /\ lastFinalizedFrame' = m.lastFinalizedFrame
            /\ gameInfoComplete' = m.gameInfoComplete
            /\ emitted' = m.emitted
            /\ err' = m.err
            /\ panicked' = m.panicked
            /\ lastEvent' = Ptr(event)
            /\ hadEntry' = stored
            /\ lastPreRetransmitted' =
                 IF IsLedgerPre(event) THEN stored ELSE lastPreRetransmitted
            /\ finalizedLog' = finalizedLog \o FramesOf(m.emitted, FinalizedFrame)
            /\ startedCount' = startedCount + CountOf(m.emitted, Started)
            /\ emittedLog' =
                 emittedLog \o [ i \in DOMAIN m.emitted |->
                                   [ event |-> m.emitted[i].event,
                                     frame |-> m.emitted[i].frame ] ]
            /\ endedBefore' = (endedBefore \/ CountOf(emitted, Ended) > 0)
            /\ ledgerPrior' =
                 IF m.Rollbacks.Count > Rollbacks.Count
                 THEN LET n == event.Payload.FrameNumber
                          prior == IF stored
                                   THEN DeepFrame(Frames[n], heapPlayers,
                                                  heapFollowers)
                                   ELSE DeepFrame(ZeroFrameEntry, heapPlayers,
                                                  heapFollowers)
                      IN MapPut(ledgerPrior, n,
                                Append(IF n \in DOMAIN ledgerPrior
                                       THEN ledgerPrior[n] ELSE <<>>, prior))
                 ELSE ledgerPrior
    IN
    /\ nEvents' = nEvents + 1
    /\ nonEmptySlots' =
         IF event.Command = CmdGameStart
         THEN { i - 1 : i \in { j \in DOMAIN event.Payload.Players :
                                  event.Payload.Players[j].PlayerType # Empty } }
         ELSE nonEmptySlots
    /\ stream' =
         IF event.Command = CmdGameStart
         THEN (IF stream = "empty" THEN "replay" ELSE "other")
         ELSE (IF stream = "replay" THEN "replay" ELSE "other")
    /\ latePostSeen' =
         (latePostSeen \/ IsLatePost(event))
    /\ lastGameStart' =
         IF event.Command = CmdGameStart
         THEN Ptr(event.Payload)
         ELSE lastGameStart
    /\ Handled(handleEvent(Machine, event))
    /\ discarded' = NULL
    /\ UNCHANGED << Options, handlers, unknownCommand >>

\* the body of the loop of ParseReplay for an event result without error:
\* an error of handleEvent ends the loop and is returned
Handle(event) ==
    /\ HandleEvent(event)
    /\ returned' = (err' # "nil")
    /\ UNCHANGED sideVars

HandleGameStart ==
    /\ Running
    /\ \E payload \in GameStartPayloads :
          Handle([ Command |-> CmdGameStart, Payload |-> payload ])

HandlePreFrameUpdate ==
    /\ Running
    /\ \E payload \in PreFrameUpdatePayloads :
          Handle([ Command |-> CmdPreFrameUpdate, Payload |-> payload ])

HandlePostFrameUpdate ==
    /\ Running
    /\ \E payload \in PostFrameUpdatePayloads :
          Handle([ Command |-> CmdPostFrameUpdate, Payload |-> payload ])

HandleGameEnd ==
    /\ Running
    /\ \E payload \in GameEndPayloads :
          Handle([ Command |-> CmdGameEnd, Payload |-> payload ])

HandleItemUpdate ==
    /\ Running
    /\ \E payload \in ItemUpdatePayloads :
          Handle([ Command |-> CmdItemUpdate, Payload |-> payload ])

HandleFrameBookend ==
    /\ Running
    /\ \E payload \in FrameBookendPayloads :
          Handle([ Command |-> CmdFrameBookend, Payload |-> payload ])

\* the channel of ParseReplay is closed: the loop ends and ParseReplay
\* returns nil
EndOfStream ==
    /\ ~panicked
    /\ ~returned
    /\ returned' = TRUE
    /\ discarded' = NULL
    /\ UNCHANGED sideVars
    /\ UNCHANGED << Options, handlers, unknownCommand, Frames, heapPlayers,
                   heapFollowers, Rollbacks,
                    gameInfo, GameEnd, latestFrameIndex, lastFinalizedFrame,
                    gameInfoComplete, emitted, err, panicked, lastEvent,
                    hadEntry, lastPreRetransmitted, finalizedLog, startedCount,
                    endedBefore, ledgerPrior, nEvents, nonEmptySlots, stream,
                    latePostSeen, lastGameStart, emittedLog >>

\* the ParserEvent values
ParserEvents == { Started, Frame, FinalizedFrame, RollbackFrame, Ended }

\* the number of handler channels attached
HandlerCount ==
    Cardinality(UNION { { <<event, i>> : i \in DOMAIN handlers[event] } :
                          event \in DOMAIN handlers })

\* SlpParser.AddHandler
AddHandler(event, handler) ==
    /\ handlers' = MapPut(handlers, event,
                          Append(IF event \in DOMAIN handlers
                                 THEN handlers[event] ELSE <<>>,
                                 handler))
    /\ discarded' = NULL
    /\ UNCHANGED sideVars
    /\ UNCHANGED << Options, unknownCommand, Frames, heapPlayers, heapFollowers,
                   Rollbacks,
                    gameInfo, GameEnd, latestFrameIndex, lastFinalizedFrame,
                    gameInfoComplete, emitted, err, panicked, lastEvent,
                    hadEntry, lastPreRetransmitted, finalizedLog, startedCount,
                    endedBefore, ledgerPrior, nEvents, nonEmptySlots, stream,
                    latePostSeen, returned, lastGameStart, emittedLog >>

AddHandlerCall ==
    /\ ~panicked
    /\ HandlerCount < MaxHandlers
    /\ \E event \in ParserEvents, handler \in Channels :
          AddHandler(event, handler)

\* what a Reset discards, for the history of the pass
PassSummary ==
    [ events |-> nEvents,
      frames |-> Cardinality(DOMAIN Frames),
      ledgerPlayer |-> Rollbacks.playerIndex,
      lastFinalizedFrame |-> lastFinalizedFrame,
      complete |-> gameInfoComplete,
      ended |-> (GameEnd # NULL) ]

\* Reset leaving the player the rollback ledger is latched to
Reset_KeepLedgerPlayer ==
    /\ ~panicked
    /\ Frames' = EmptyMap
    /\ heapPlayers' = EmptyMap
    /\ heapFollowers' = EmptyMap
    /\ gameInfo' = NULL
    /\ GameEnd' = NULL
    /\ latestFrameIndex' = NoFrameYet
    /\ lastFinalizedFrame' = NoFrameYet
    /\ gameInfoComplete' = FALSE
    /\ Rollbacks' = [ NewRollbacks EXCEPT !.playerIndex = Rollbacks.playerIndex ]
    /\ emitted' = <<>>
    /\ err' = "nil"
    /\ lastEvent' = NULL
    /\ hadEntry' = FALSE
    /\ lastPreRetransmitted' = FALSE
    /\ finalizedLog' = <<>>
    /\ startedCount' = 0
    /\ endedBefore' = FALSE
    /\ ledgerPrior' = EmptyMap
    /\ nEvents' = 0
    /\ nonEmptySlots' = {}
    /\ stream' = "empty"
    /\ latePostSeen' = FALSE
    /\ returned' = FALSE
    /\ lastGameStart' = NULL
    /\ emittedLog' = <<>>
    /\ discarded' = Ptr(PassSummary)
    /\ UNCHANGED sideVars
    /\ UNCHANGED << Options, handlers, panicked, unknownCommand >>

\* SlpParser.Reset and the history of the call
ResetParser ==
    /\ ~panicked
    /\ Frames' = EmptyMap
    /\ heapPlayers' = EmptyMap
    /\ heapFollowers' = EmptyMap
    /\ gameInfo' = NULL
    /\ GameEnd' = NULL
    /\ latestFrameIndex' = NoFrameYet
    /\ lastFinalizedFrame' = NoFrameYet
    /\ gameInfoComplete' = FALSE
    /\ Rollbacks' = NewRollbacks
    /\ emitted' = <<>>
    /\ err' = "nil"
    /\ lastEvent' = NULL
    /\ hadEntry' = FALSE
    /\ lastPreRetransmitted' = FALSE
    /\ finalizedLog' = <<>>
    /\ startedCount' = 0
    /\ endedBefore' = FALSE
    /\ ledgerPrior' = EmptyMap
    /\ nEvents' = 0
    /\ nonEmptySlots' = {}
    /\ stream' = "empty"
    /\ latePostSeen' = FALSE
    /\ returned' = FALSE
    /\ lastGameStart' = NULL
    /\ emittedLog' = <<>>
    /\ discarded' = Ptr(PassSummary)
    /\ UNCHANGED << Options, handlers, panicked, unknownCommand >>

\* SlpParser.Reset
Reset ==
    /\ ResetParser
    /\ UNCHANGED sideVars

Next ==
    \/ HandleGameStart
    \/ HandlePreFrameUpdate
    \/ HandlePostFrameUpdate
    \/ HandleGameEnd
    \/ HandleItemUpdate
    \/ HandleFrameBookend
    \/ EndOfStream
    \/ Reset

Spec == Init /\ [][Next]_vars

(***************************************************************************)
(* The parser with subscribers: handler channels are attached between the  *)
(* events of passes shorter than those of Spec.                            *)
(***************************************************************************)
ShortPass == nEvents < MaxEvents - 1

NextSubscribers ==
    \/ ShortPass /\ HandleGameStart
    \/ ShortPass /\ HandlePreFrameUpdate
    \/ ShortPass /\ HandleGameEnd
    \/ AddHandlerCall
    \/ Reset

SpecSubscribers == Init /\ [][NextSubscribers]_vars

(***************************************************************************)
(* The replays with in-match frames, bookended: one pass over a GameStart, *)
(* a pre-frame update, a post-frame update, a FrameBookend that reports    *)
(* its own frame as finalized, and a GameEnd.  The reader may stop the     *)
(* pass at any event: reading the command byte fails, or the byte has no   *)
(* entry in PayloadSizes.                                                  *)
(***************************************************************************)
\* the values of err after r.Source.Read(commandBuf) in YieldEvents
ReadErrors == { "nil", "ReadFailed" }

\* SlpReader.YieldEvents: the result sent before the channel is closed,
\* when the read failed (readErr # nil) and when the command has no
\* payload buffer (the read succeeded, so readErr is nil)
FailureResult(readErr) == [ Event |-> NULL, Error |-> readErr ]

\* ParseReplay receives a result: it returns the error of the result, or
\* dereferences the event of the result
ReceiveFailure(eventResult) ==
    IF eventResult.Error # "nil"
    THEN /\ returned' = TRUE
         /\ err' = eventResult.Error
         /\ UNCHANGED panicked
    ELSE /\ panicked' = (eventResult.Event = NULL)
         /\ UNCHANGED << returned, err >>

ReaderStops ==
    /\ \E readErr \in ReadErrors :
          /\ unknownCommand' = (readErr = "nil")
          /\ ReceiveFailure(FailureResult(readErr))
    /\ discarded' = NULL
    /\ UNCHANGED sideVars
    /\ UNCHANGED << Options, handlers, Frames, heapPlayers, heapFollowers,
                    Rollbacks, gameInfo, GameEnd, latestFrameIndex,
                    lastFinalizedFrame, gameInfoComplete, emitted, lastEvent,
                    hadEntry, lastPreRetransmitted, finalizedLog, startedCount,
                    endedBefore, ledgerPrior, nEvents, nonEmptySlots, stream,
                    latePostSeen, lastGameStart, emittedLog >>

\* the loop of ParseReplay is about to receive its k-th event
At(k) ==
    /\ nEvents = k - 1
    /\ ~panicked
    /\ ~returned

NextScenario ==
    \/ At(1) /\ \E payload \in GameStartPayloads :
                   Handle([ Command |-> CmdGameStart, Payload |-> payload ])
    \/ At(2) /\ \E payload \in PreFrameUpdatePayloads :
                   Handle([ Command |-> CmdPreFrameUpdate, Payload |-> payload ])
    \/ At(3) /\ \E payload \in PostFrameUpdatePayloads :
                   Handle([ Command |-> CmdPostFrameUpdate, Payload |-> payload ])
    \/ At(4) /\ \E payload \in FrameBookendPayloads :
                   /\ payload.LatestFinalizedFrame = payload.FrameNumber
                   /\ Handle([ Command |-> CmdFrameBookend, Payload |-> payload ])
    \/ At(5) /\ \E payload \in GameEndPayloads :
                   Handle([ Command |-> CmdGameEnd, Payload |-> payload ])
    \/ \E k \in 1..5 : At(k) /\ ReaderStops

SpecScenario == Init /\ [][NextScenario]_vars

(***************************************************************************)
(* The reader at work: NewSlpReader, SetInclude, YieldEvents with its      *)
(* goroutine, and the unbounded channel that carries the results to the    *)
(* consumer.                                                               *)
(***************************************************************************)
\* NewSlpReader(s) over a source whose raw region is region: the preamble
\* and the event payloads event are read, the include set is built
NewSlpReader(region) ==
    /\ reader = NULL
    /\ reader' = Ptr([ include |-> DefaultInclude,
                       RawStart |-> RawStart,
                       RawLength |-> Len(Encode(region)),
                       PayloadSizes |-> PayloadSizes ])
    /\ Source' = [ bytes |-> Encode(region) \o Trailer,
                   offset |-> RawStart + 2 ]
    /\ rawEvents' = region
    /\ lastSetInclude' = NULL
    /\ UNCHANGED << yield, channel, received, commandReads, nSetInclude,
                    sentLog >>
    /\ UNCHANGED outsideReader

NewSlpReaderCall == \E region \in RawRegions : NewSlpReader(region)

\* the command bytes SetInclude is called with: 0x10, 0x34, 0x35, the
\* commands of the replays, 0x3D, 0x3E, 0x40
SetIncludeCommands ==
    { CmdMessageSplitter, 52, CmdEventPayloads, CmdPreFrameUpdate,
      CmdItemUpdate, CmdGeckoList, 62, 64 }

\* the check of SetInclude
IsUnknownCommand_Lower(command) ==
    command # CmdMessageSplitter
      /\ (command < CmdEventPayloads \/ command > CmdItemUpdate)

IsUnknownCommand(command) ==
    command # CmdMessageSplitter
      /\ (command < CmdEventPayloads \/ command > CmdGeckoList)

\* SlpReader.SetInclude(command, include)
SetInclude(command, include) ==
    /\ reader # NULL
    /\ yield.pc = "idle"
    /\ nSetInclude < MaxSetIncludes
    /\ nSetInclude' = nSetInclude + 1
    /\ IF IsUnknownCommand(command)
       THEN /\ lastSetInclude' = Ptr([ command |-> command, flag |-> include,
                                       err |-> "unknown command",
                                       before |-> Deref(reader).include ])
            /\ UNCHANGED reader
       ELSE /\ lastSetInclude' = Ptr([ command |-> command, flag |-> include,
                                       err |-> "nil",
                                       before |-> Deref(reader).include ])
            /\ reader' = Ptr([ Deref(reader) EXCEPT
                                 !.include = MapPut(@, command, include) ])
    /\ UNCHANGED << Source, yield, channel, received, rawEvents,
                    commandReads, sentLog >>
    /\ UNCHANGED outsideReader

SetIncludeCall ==
    \E command \in SetIncludeCommands, include \in BOOLEAN :
        SetInclude(command, include)

\* the commands on which the stop predicates of the callers return true;
\* 0 stands for the predicate that never does
StopChoices == { 0, CmdPreFrameUpdate, CmdGameEnd }

\* YieldEvents(stopYielding), up to the start of the goroutine: the source
\* is sought to RawStart
YieldEvents(stopOn) ==
    /\ reader # NULL
    /\ yield.pc = "idle"
    /\ Source' = [ Source EXCEPT !.offset = Deref(reader).RawStart ]
    /\ yield' = [ pc |-> "loop", position |-> Deref(reader).RawStart,
                  stopOn |-> stopOn ]
    /\ lastSetInclude' = NULL
    /\ UNCHANGED << reader, channel, received, rawEvents, commandReads,
                    nSetInclude, sentLog >>
    /\ UNCHANGED outsideReader

YieldEventsCall == \E stopOn \in StopChoices : YieldEvents(stopOn)

\* Source.Read(buf) with len(buf) = n: the bytes read, their number, the
\* error, and the source afterwards
Read(src, n) ==
    LET first == src.offset - RawStart + 1
        avail == Len(src.bytes) - first + 1
        k == IF n < avail THEN n ELSE avail
    IN  IF avail <= 0
        THEN [ bytes |-> <<>>, n |-> 0, err |-> "EOF", src |-> src ]
        ELSE [ bytes |-> [ i \in 1..k |-> src.bytes[first + i - 1] ],
               n |-> k, err |-> "nil",
               src |-> [ src EXCEPT !.offset = @ + k ] ]

\* Source.Seek(n, io.SeekCurrent)
SeekCurrent(src, n) == [ src EXCEPT !.offset = @ + n ]

\* parsePayload(command, payload) for the commands of the replays
parsePayload(command, payload) ==
    [ Command |-> command, Payload |-> payload ]

\* send <- result, and close(send)
Send(ch, result) == [ ch EXCEPT !.sendQueue = Append(@, result) ]

Close(ch) == [ ch EXCEPT !.inClosed = TRUE ]

Stop_KeepYielding(src, position, results) ==
    /\ Source' = src
    /\ yield' = [ yield EXCEPT !.position = position ]
    /\ channel' = [ channel EXCEPT !.sendQueue = @ \o results ]
    /\ sentLog' = sentLog \o results

\* the goroutine stops: it sends result if there is one and closes send
Stop(src, position, results) ==
    /\ Source' = src
    /\ yield' = [ yield EXCEPT !.pc = "done", !.position = position ]
    /\ channel' = Close([ channel EXCEPT !.sendQueue = @ \o results ])
    /\ sentLog' = sentLog \o results

\* the goroutine goes on to the next iteration
Continue(src, position, results) ==
    /\ Source' = src
    /\ yield' = [ yield EXCEPT !.position = position ]
    /\ channel' = [ channel EXCEPT !.sendQueue = @ \o results ]
    /\ sentLog' = sentLog \o results

\* one iteration of the loop of the goroutine of YieldEvents
YieldLoop ==
    /\ yield.pc = "loop"
    /\ LET r == Deref(reader)
           end == r.RawStart + r.RawLength - 1
           \* the command byte has been read
           Command(rd) ==
               LET command == rd.bytes[1]
                   position == yield.position + rd.n
                   size == r.PayloadSizes[command]
                   Payload(rp) ==
                       LET event == parsePayload(command, rp.bytes)
                           result == [ Event |-> Ptr(event), Error |-> "nil" ]
                       IN  IF rp.err # "nil"
                           THEN Stop(rp.src, position,
                                     << FailureResult(rp.err) >>)
                           ELSE IF yield.stopOn = event.Command
                           THEN Stop(rp.src, position + rp.n, << result >>)
                           ELSE Continue(rp.src, position + rp.n, << result >>)
               IN  IF command \notin DOMAIN r.PayloadSizes
                   THEN Stop(rd.src, position, << FailureResult(rd.err) >>)
                   ELSE IF command \notin DOMAIN r.include
                           \/ ~r.include[command]
                   THEN Continue(SeekCurrent(rd.src, size), position, <<>>)
                   ELSE Payload(Read(rd.src, size))
       IN  IF ~(yield.position < end)
           THEN /\ Stop(Source, yield.position, <<>>)
                /\ UNCHANGED commandReads
           ELSE /\ commandReads' = Append(commandReads, Source.offset)
                /\ IF Read(Source, 1).err # "nil"
                   THEN Stop(Source, yield.position,
                             << FailureResult(Read(Source, 1).err) >>)
                   ELSE Command(Read(Source, 1))
    /\ lastSetInclude' = NULL
    /\ UNCHANGED << reader, received, rawEvents, nSetInclude >>
    /\ UNCHANGED outsideReader

\* the goroutine of MakeUnboundedChannel handing the newest element of
\* sendQueue to the consumer
Receive_Newest ==
    /\ channel.sendQueue # <<>>
    /\ received' = Append(received,
                          channel.sendQueue[Len(channel.sendQueue)])
    /\ channel' = [ channel EXCEPT
                      !.sendQueue = SubSeq(@, 1, Len(@) - 1) ]
    /\ lastSetInclude' = NULL
    /\ UNCHANGED << reader, Source, yield, rawEvents, commandReads,
                    nSetInclude, sentLog >>
    /\ UNCHANGED outsideReader

\* the goroutine of MakeUnboundedChannel hands the head of sendQueue to the
\* consumer
Receive ==
    /\ channel.sendQueue # <<>>
    /\ received' = Append(received, Head(channel.sendQueue))
    /\ channel' = [ channel EXCEPT !.sendQueue = Tail(@) ]
    /\ lastSetInclude' = NULL
    /\ UNCHANGED << reader, Source, yield, rawEvents, commandReads,
                    nSetInclude, sentLog >>
    /\ UNCHANGED outsideReader

\* the goroutine of MakeUnboundedChannel ends: in is closed and sendQueue
\* is empty, so it closes out
CloseOut ==
    /\ channel.inClosed
    /\ channel.sendQueue = <<>>
    /\ ~channel.outClosed
    /\ channel' = [ channel EXCEPT !.outClosed = TRUE ]
    /\ lastSetInclude' = NULL
    /\ UNCHANGED << reader, Source, yield, received, rawEvents, commandReads,
                    nSetInclude, sentLog >>
    /\ UNCHANGED outsideReader

NextReader ==
    \/ NewSlpReaderCall
    \/ SetIncludeCall
    \/ YieldEventsCall
    \/ YieldLoop
    \/ Receive
    \/ CloseOut

SpecReader == Init /\ [][NextReader]_vars

\* the reader with a consumer that keeps receiving: the goroutine of
\* MakeUnboundedChannel is scheduled, and its send on out is taken
SpecReaderFair ==
    SpecReader /\ WF_vars(Receive) /\ WF_vars(CloseOut)

(***************************************************************************)
(* The event bus: AddHandler, RemoveHandler and Trigger with the           *)
(* goroutines it starts, and the subscribers that receive from the handler *)
(* channels.  A handler list is a Go slice: RemoveHandler works on its     *)
(* backing array.                                                          *)
(***************************************************************************)
\* the event of the subscriptions and of the Trigger calls (the payload of
\* the n-th call is n), and the subscribers that may stop receiving
BusEvents == { FinalizedFrame }

Quitters == { "other" }

\* the loop of RemoveHandler from index j on, over the slice header read
\* by range (backing array a, length n), p.handlers[event] having length L
\* in the same array; indices are counted from 1
RECURSIVE removeLoop(_, _, _, _, _)
removeLoop(a, L, j, n, toRemove) ==
    IF j > n
    THEN [ handlers |-> SubSeq(a, 1, L), panicked |-> FALSE ]
    ELSE IF a[j] # toRemove
    THEN removeLoop(a, L, j + 1, n, toRemove)
    ELSE IF j > L
    \* p.handlers[event][i+1:] with i+1 beyond the length
    THEN [ handlers |-> SubSeq(a, 1, L), panicked |-> TRUE ]
    ELSE LET right == SubSeq(a, j + 1, L)
             last == j - 1 + Len(right)
         IN  removeLoop([ k \in 1..n |-> IF k \in j..last
                                        THEN right[k - j + 1]
                                        ELSE a[k] ],
                        last, j + 1, n, toRemove)

\* SlpParser.RemoveHandler(event, toRemove)
RemoveHandler(event, toRemove) ==
    /\ removeLog' = Append(removeLog,
                           [ event |-> event, toRemove |-> toRemove,
                             before |-> IF event \in DOMAIN handlers
                                        THEN handlers[event] ELSE <<>> ])
    /\ IF event \in DOMAIN handlers
       THEN LET after == removeLoop(handlers[event], Len(handlers[event]), 1,
                                    Len(handlers[event]), toRemove)
            IN  /\ handlers' = MapPut(handlers, event, after.handlers)
                /\ panicked' = after.panicked
       ELSE UNCHANGED << handlers, panicked >>
    /\ discarded' = NULL
    /\ UNCHANGED << parserRest, outsideBus, goroutines, inbox, listening,
                    triggerLog >>

RemoveHandlerCall ==
    /\ ~panicked
    /\ Len(removeLog) < MaxRemoves
    /\ \E event \in BusEvents, toRemove \in Channels :
          RemoveHandler(event, toRemove)

\* AddHandler on the event bus
Subscribe ==
    /\ ~panicked
    /\ HandlerCount < MaxSubscriptions
    /\ \E event \in BusEvents, handler \in Channels :
          AddHandler(event, handler)

\* SlpParser.Trigger(event, payload): one goroutine for each channel of the
\* handler list of the event
Spawn_Synchronous(event, payload) ==
    /\ \A i \in DOMAIN handlers[event] : handlers[event][i] \in listening
    /\ goroutines' = goroutines
    /\ inbox' = [ h \in Channels |->
                    inbox[h] \o [ i \in 1..Cardinality({ k \in DOMAIN
                        handlers[event] : handlers[event][k] = h }) |->
                                    [ event |-> event, payload |-> payload ] ] ]

Spawn(event, payload) ==
    /\ goroutines' = goroutines \cup
          { [ h |-> handlers[event][i], event |-> event,
              payload |-> payload, index |-> i ] :
            i \in DOMAIN handlers[event] }
    /\ UNCHANGED inbox

\* the number of goroutines started so far, and of those a Trigger call
\* for the event starts
SpawnedCount ==
    Cardinality(goroutines)
      + Cardinality(UNION { { <<h, i>> : i \in DOMAIN inbox[h] } :
                              h \in Channels })

ToSpawn(event) ==
    IF event \in DOMAIN handlers THEN Len(handlers[event]) ELSE 0

TriggerCall ==
    /\ ~panicked
    /\ Len(triggerLog) < MaxGoroutines
    /\ \E event \in BusEvents :
          /\ SpawnedCount + ToSpawn(event) <= MaxGoroutines
          /\ triggerLog' = Append(triggerLog,
                [ event |-> event, payload |-> Len(triggerLog) + 1,
                  handlers |-> IF event \in DOMAIN handlers
                               THEN handlers[event] ELSE <<>> ])
          /\ IF event \in DOMAIN handlers
             THEN Spawn(event, Len(triggerLog) + 1)
             ELSE UNCHANGED << goroutines, inbox >>
    /\ UNCHANGED << parserVars, outsideBus, listening, removeLog >>

\* the send h <- payload of a goroutine meets a receive of the subscriber
Deliver(g) ==
    /\ ~panicked
    /\ g \in goroutines
    /\ g.h \in listening
    /\ goroutines' = goroutines \ { g }
    /\ inbox' = [ inbox EXCEPT ![g.h] =
                    Append(@, [ event |-> g.event, payload |-> g.payload ]) ]
    /\ UNCHANGED << parserVars, outsideBus, listening, triggerLog,
                    removeLog >>

\* the subscriber of a handler channel stops receiving, for good
StopReceiving(h) ==
    /\ h \in listening
    /\ listening' = listening \ { h }
    /\ UNCHANGED << parserVars, outsideBus, goroutines, inbox, triggerLog,
                    removeLog >>

NextBus ==
    \/ Subscribe
    \/ RemoveHandlerCall
    \/ TriggerCall
    \/ \E g \in goroutines : Deliver(g)
    \/ \E h \in Quitters : StopReceiving(h)

SpecBus == Init /\ [][NextBus]_vars

\* every goroutine Trigger can start
GoroutineSpace ==
    [ h : Channels, event : BusEvents, payload : 1..MaxGoroutines,
      index : 1..MaxSubscriptions ]

\* the event bus under a scheduler that lets every goroutine run: a send
\* that can meet a receive does so in the end
SpecBusFair ==
    /\ Init
    /\ [][NextBus]_vars
    /\ \A g \in GoroutineSpace : WF_vars(Deliver(g))

(***************************************************************************)
(* The game: SlpGame with its calculators.  A calculator is known by the   *)
(* handler channels it returns from getChannels.                           *)
(***************************************************************************)
Calculators == { "c1", "c2" }

\* SlpCalculator.getChannels
getChannels(c) ==
    IF c = "c1"
    THEN ( Frame :> << "sink" >> )
    ELSE ( Frame :> << "other" >> ) @@ ( FinalizedFrame :> << "other" >> )

\* the handler lists after AddHandler(event, handler) for every channel of
\* the calculator
AddChannels(h, c) ==
    [ event \in DOMAIN h \cup DOMAIN getChannels(c) |->
        ( IF event \in DOMAIN h THEN h[event] ELSE <<>> )
          \o ( IF event \in DOMAIN getChannels(c)
               THEN getChannels(c)[event] ELSE <<>> ) ]

\* the handler lists after AddHandler for every channel of every
\* calculator of the list
RECURSIVE AddAllChannels(_, _)
AddAllChannels(h, cs) ==
    IF cs = <<>> THEN h
    ELSE AddAllChannels(AddChannels(h, Head(cs)), Tail(cs))

GameCall(op, c) == [ op |-> op, c |-> c, before |-> handlers ]

\* SlpGame.AddCalculator(c)
AddCalculator(c) ==
    /\ calculators' = Append(calculators, c)
    /\ handlers' = AddChannels(handlers, c)
    /\ gameCalls' = Append(gameCalls, GameCall("AddCalculator", c))
    /\ discarded' = NULL
    /\ UNCHANGED << parserRest, panicked, readerVars, busVars, dolphinVars,
                    infoVars >>

\* SlpGame.RemoveCalculator(c)
RemoveCalculator(c) ==
    LET after == removeLoop(calculators, Len(calculators), 1,
                            Len(calculators), c)
    IN  /\ calculators' = after.handlers
        /\ panicked' = after.panicked
        /\ IF after.panicked
           THEN UNCHANGED handlers
           ELSE handlers' = AddChannels(handlers, c)
        /\ gameCalls' = Append(gameCalls, GameCall("RemoveCalculator", c))
        /\ discarded' = NULL
        /\ UNCHANGED << parserRest, readerVars, busVars, dolphinVars,
                    infoVars >>

\* SlpGame.RemoveAllCalculators()
RemoveAllCalculators ==
    /\ calculators' = <<>>
    /\ handlers' = AddAllChannels(handlers, calculators)
    /\ gameCalls' = Append(gameCalls, GameCall("RemoveAllCalculators", ""))
    /\ discarded' = NULL
    /\ UNCHANGED << parserRest, panicked, readerVars, busVars, dolphinVars,
                    infoVars >>

\* the program has not crashed; MaxGameCalls bounds the calls
GameRunning ==
    /\ ~panicked
    /\ Len(gameCalls) < MaxGameCalls

NextGame ==
    \/ GameRunning /\ \E c \in Calculators : AddCalculator(c)
    \/ GameRunning /\ \E c \in Calculators : RemoveCalculator(c)
    \/ GameRunning /\ RemoveAllCalculators

SpecGame == Init /\ [][NextGame]_vars

(***************************************************************************)
(* The connection to Dolphin: Connect, and the goroutine that serves the   *)
(* ENet events of the peer.  An event sent on c.send is its type and its   *)
(* payload.                                                                *)
(***************************************************************************)
\* DolphinMessageType
ConnectReply == "connect_reply"
MenuEvent == "menu_event"
GameEvent == "game_event"
StartGame == "start_game"
EndGame == "end_game"

\* the payloads of the messages: none, base64 text, and text that is no
\* base64
DolphinPayloads == { "", "AA==", "!" }

\* the messages json.Unmarshal decodes, and the message left at its zero
\* value when the data is no JSON
DolphinMessages ==
    [ Type : { ConnectReply, MenuEvent, GameEvent, StartGame, EndGame },
      Cursor : 0..MaxCursor, NextCursor : 0..MaxCursor,
      Payload : DolphinPayloads ]

ZeroMessage == [ Type |-> "", Cursor |-> 0, NextCursor |-> 0, Payload |-> "" ]

Unmarshalled ==
    { [ message |-> message, err |-> "nil" ] : message \in DolphinMessages }
      \cup { [ message |-> ZeroMessage, err |-> "invalid character" ] }

\* base64.StdEncoding.DecodeString(payload)
DecodeString(payload) ==
    IF payload \in { "", "AA==" }
    THEN [ gameData |-> payload, err |-> "nil" ]
    ELSE [ gameData |-> "", err |-> "illegal base64 data" ]

ConnectionEvent(type, payload) == [ Type |-> type, Payload |-> payload ]

\* the events setStatus(status) sends when the status is current
setStatus(current, status) ==
    IF current # status
    THEN << ConnectionEvent("statusChange", status) >>
    ELSE <<>>

\* the events updateCursor(message) sends
cursorMismatch_Never(cursor, message) == FALSE

cursorMismatch(cursor, message) == cursor # message.Cursor

updateCursor(cursor, message) ==
    IF cursorMismatch(cursor, message)
    THEN << ConnectionEvent("error", "unexpected game data cursor") >>
    ELSE <<>>

\* DolphinConnection.Connect(ip, port), with every ENet call succeeding
DolphinConnect ==
    /\ ~serving
    /\ serving' = TRUE
    /\ ConnectionStatus' = Connecting
    /\ lastSent' = << ConnectionEvent("connect", "") >>
                     \o setStatus(ConnectionStatus, Connected)
                     \o setStatus(Connected, Connecting)
    /\ lastMessage' = NULL
    /\ UNCHANGED GameCursor
    /\ UNCHANGED << parserVars, readerVars, busVars, gameVars,
                        infoVars >>

\* ENET_EVENT_TYPE_CONNECT: the connect request is sent
PeerConnects ==
    /\ serving
    /\ GameCursor' = 0
    /\ lastSent' = <<>>
    /\ lastMessage' = NULL
    /\ UNCHANGED << ConnectionStatus, serving >>
    /\ UNCHANGED << parserVars, readerVars, busVars, gameVars,
                        infoVars >>

\* ENET_EVENT_TYPE_DISCONNECT: Disconnect()
PeerDisconnects ==
    /\ serving
    /\ ConnectionStatus' = Disconnected
    /\ lastSent' = setStatus(ConnectionStatus, Disconnected)
    /\ lastMessage' = NULL
    /\ UNCHANGED << GameCursor, serving >>
    /\ UNCHANGED << parserVars, readerVars, busVars, gameVars,
                        infoVars >>

\* ENET_EVENT_TYPE_RECEIVE with data that json.Unmarshal turns into
\* message, with error jsonErr
ReceiveMessage(message, jsonErr) ==
    LET first == ( IF jsonErr # "nil"
                   THEN << ConnectionEvent("error", jsonErr) >> ELSE <<>> )
                 \o << ConnectionEvent("message", message) >>
        decoded == DecodeString(message.Payload)
    IN  /\ serving
        /\ lastMessage' = Ptr([ message |-> message, before |-> GameCursor ])
        /\ CASE message.Type = ConnectReply ->
                  /\ ConnectionStatus' = Connected
                  /\ GameCursor' = message.Cursor
                  /\ lastSent' = first
                       \o setStatus(ConnectionStatus, Connected)
                       \o << ConnectionEvent("message", message.Cursor) >>
             [] message.Type \in { MenuEvent, GameEvent }
                  /\ message.Payload = "" ->
                  /\ ConnectionStatus' = Disconnected
                  /\ lastSent' = first
                       \o setStatus(ConnectionStatus, Disconnected)
                  /\ UNCHANGED GameCursor
             [] message.Type \in { MenuEvent, GameEvent }
                  /\ message.Payload # "" ->
                  /\ GameCursor' = message.NextCursor
                  /\ lastSent' = first
                       \o updateCursor(GameCursor, message)
                       \o ( IF decoded.err # "nil"
                            THEN << ConnectionEvent("error", decoded.err) >>
                            ELSE <<>> )
                       \o << ConnectionEvent("data", decoded.gameData) >>
                  /\ UNCHANGED ConnectionStatus
             [] message.Type \in { StartGame, EndGame } ->
                  /\ GameCursor' = message.NextCursor
                  /\ lastSent' = first \o updateCursor(GameCursor, message)
                  /\ UNCHANGED ConnectionStatus
             [] OTHER ->
                  /\ lastSent' = first
                  /\ UNCHANGED << ConnectionStatus, GameCursor >>
        /\ UNCHANGED serving
        /\ UNCHANGED << parserVars, readerVars, busVars, gameVars,
                        infoVars >>

ReceiveMessageCall ==
    \E data \in Unmarshalled : ReceiveMessage(data.message, data.err)

NextDolphin ==
    \/ DolphinConnect
    \/ PeerConnects
    \/ PeerDisconnects
    \/ ReceiveMessageCall

SpecDolphin == Init /\ [][NextDolphin]_vars

(***************************************************************************)
(* ParseReplay at the end of the unbounded channel of YieldEvents: the     *)
(* goroutine of YieldEvents sends the results of a replay and closes the   *)
(* channel, ParseReplay receives them, handles the events, and on the      *)
(* first error flushes the channel and returns.  What an iteration of the  *)
(* goroutine does (it sends an event, sends a failure, ends) is chosen     *)
(* freely in place of the bytes of a source.                               *)
(***************************************************************************)
\* the events of the replays: the game of one Human, the updates and the
\* bookend of the first frame, a bookend outside the rollback window, the
\* end of the game
ReplayEvents ==
    { [ Command |-> CmdGameStart,
        Payload |-> parseGameStart(
            RawGameStart(<<3, 0, 0>>, InGameScene,
                         <<Human, Empty, Empty, Empty>>)) ],
      [ Command |-> CmdPreFrameUpdate,
        Payload |-> PreFrameUpdatePayload(FirstFrame, 0, FALSE, 1) ],
      [ Command |-> CmdPostFrameUpdate,
        Payload |-> PostFrameUpdatePayload(FirstFrame, 0, FALSE, 19) ],
      [ Command |-> CmdFrameBookend,
        Payload |-> [ FrameNumber |-> FirstFrame,
                      LatestFinalizedFrame |-> FirstFrame ] ],
      [ Command |-> CmdFrameBookend,
        Payload |-> [ FrameNumber |-> FarFrame,
                      LatestFinalizedFrame |-> FirstFrame ] ],
      [ Command |-> CmdGameEnd,
        Payload |-> [ GameEndMethod |-> 2, LRASInitiator |-> -1 ] ] }

\* the parser state a step that handles no event leaves alone
parserState ==
    << Options, handlers, Frames, heapPlayers, heapFollowers, Rollbacks,
       gameInfo, GameEnd, latestFrameIndex, lastFinalizedFrame,
       gameInfoComplete, emitted, lastEvent, hadEntry, lastPreRetransmitted,
       finalizedLog, startedCount, endedBefore, ledgerPrior, nEvents,
       nonEmptySlots, stream, latePostSeen, lastGameStart, emittedLog >>

\* what a step of the goroutine of YieldEvents leaves alone
yieldingLeaves ==
    << reader, Source, received, rawEvents, commandReads, lastSetInclude,
       nSetInclude, busVars, gameVars, dolphinVars, infoVars, parserState,
       returned,
       err, panicked, discarded >>

\* what a step of ParseReplay leaves alone
parsingLeaves ==
    << reader, Source, yield, rawEvents, commandReads, lastSetInclude,
       nSetInclude, sentLog, busVars, gameVars, dolphinVars, infoVars >>

\* YieldEvents(stopYielding) on a replay: the channel is made and the
\* goroutine started
YieldEventsOfReplay ==
    /\ yield.pc = "idle"
    /\ yield' = [ yield EXCEPT !.pc = "loop" ]
    /\ UNCHANGED << channel, sentLog, unknownCommand >>
    /\ UNCHANGED yieldingLeaves

\* an iteration of the goroutine that sends an event; stopYielding(event)
\* tells whether it is the last one
YieldEventResult ==
    /\ yield.pc = "loop"
    /\ Len(sentLog) < MaxResults
    /\ \E event \in ReplayEvents, stopYielding \in BOOLEAN :
          LET result == [ Event |-> Ptr(event), Error |-> "nil" ] IN
          /\ sentLog' = Append(sentLog, result)
          /\ IF stopYielding
             THEN /\ channel' = Close(Send(channel, result))
                  /\ yield' = [ yield EXCEPT !.pc = "done" ]
             ELSE /\ channel' = Send(channel, result)
                  /\ UNCHANGED yield
    /\ UNCHANGED unknownCommand
    /\ UNCHANGED yieldingLeaves

\* an iteration of the goroutine that fails: a read fails, or the command
\* byte has no payload buffer (then err is nil)
YieldFailure ==
    /\ yield.pc = "loop"
    /\ \E readErr \in ReadErrors :
          /\ sentLog' = Append(sentLog, FailureResult(readErr))
          /\ channel' = Close(Send(channel, FailureResult(readErr)))
          /\ unknownCommand' = (readErr = "nil")
    /\ yield' = [ yield EXCEPT !.pc = "done" ]
    /\ UNCHANGED yieldingLeaves

\* the goroutine has reached the end of the raw region
YieldEnd ==
    /\ yield.pc = "loop"
    /\ channel' = Close(channel)
    /\ yield' = [ yield EXCEPT !.pc = "done" ]
    /\ UNCHANGED << sentLog, unknownCommand >>
    /\ UNCHANGED yieldingLeaves

\* ParseReplay is in flushChannel
Flushing ==
    /\ err # "nil"
    /\ ~returned
    /\ ~panicked

\* ParseReplay is at the range over eventResults
Ranging ==
    /\ yield.pc # "idle"
    /\ err = "nil"
    /\ ~returned
    /\ ~panicked

\* the range of ParseReplay receives a result: its error starts the flush,
\* its event is handled, and an error of handleEvent starts the flush
ParseReplayReceives ==
    /\ Ranging
    /\ channel.sendQueue # <<>>
    /\ LET eventResult == Head(channel.sendQueue) IN
       /\ channel' = [ channel EXCEPT !.sendQueue = Tail(@) ]
       /\ received' = Append(received, eventResult)
       /\ IF eventResult.Error # "nil"
          THEN /\ err' = eventResult.Error
               /\ discarded' = NULL
               /\ UNCHANGED << parserState, panicked, unknownCommand >>
          ELSE IF eventResult.Event = NULL
          THEN /\ panicked' = TRUE
               /\ discarded' = NULL
               /\ UNCHANGED << parserState, err, unknownCommand >>
          ELSE HandleEvent(Deref(eventResult.Event))
    /\ UNCHANGED returned
    /\ UNCHANGED parsingLeaves

\* the range of ParseReplay finds the channel closed: ParseReplay returns
\* nil
ParseReplayEnds ==
    /\ Ranging
    /\ channel.outClosed
    /\ returned' = TRUE
    /\ discarded' = NULL
    /\ UNCHANGED << parserState, err, panicked, unknownCommand, channel,
                    received >>
    /\ UNCHANGED parsingLeaves

\* flushChannel receives a result and drops it
flushChannelReceives ==
    /\ Flushing
    /\ channel.sendQueue # <<>>
    /\ channel' = [ channel EXCEPT !.sendQueue = Tail(@) ]
    /\ received' = Append(received, Head(channel.sendQueue))
    /\ discarded' = NULL
    /\ UNCHANGED << parserState, err, panicked, unknownCommand, returned >>
    /\ UNCHANGED parsingLeaves

\* flushChannel finds the channel closed: ParseReplay returns the error
flushChannelEnds ==
    /\ Flushing
    /\ channel.outClosed
    /\ returned' = TRUE
    /\ discarded' = NULL
    /\ UNCHANGED << parserState, err, panicked, unknownCommand, channel,
                    received >>
    /\ UNCHANGED parsingLeaves

\* one step of the goroutine of YieldEvents
Yielding ==
    \/ YieldEventResult
    \/ YieldFailure
    \/ YieldEnd

NextReplay ==
    \/ YieldEventsOfReplay
    \/ YieldEventResult
    \/ YieldFailure
    \/ YieldEnd
    \/ CloseOut
    \/ ParseReplayReceives
    \/ ParseReplayEnds
    \/ flushChannelReceives
    \/ flushChannelEnds

SpecReplay == Init /\ [][NextReplay]_vars

\* every goroutine is scheduled: the one of YieldEvents, the one of
\* MakeUnboundedChannel, and the one that runs ParseReplay
SpecReplayFair ==
    /\ SpecReplay
    /\ WF_vars(Yielding)
    /\ WF_vars(CloseOut)
    /\ WF_vars(ParseReplayReceives)
    /\ WF_vars(ParseReplayEnds)
    /\ WF_vars(flushChannelReceives)
    /\ WF_vars(flushChannelEnds)

(***************************************************************************)
(* The game info of a game: newSlpGame subscribes gameInfoChan to Started  *)
(* and starts the goroutine that stores what arrives on it in g.gameInfo;  *)
(* GetGameInfo processes the replay and reads g.gameInfo.  The goroutine   *)
(* Trigger starts for gameInfoChan is there from the Started emission on   *)
(* until it has sent.  g.gameInfo is written by one goroutine and read by  *)
(* another without synchronisation.                                        *)
(***************************************************************************)
gameInfoChan == "gameInfoChan"

\* newSlpGame has run
GameExists ==
    /\ Started \in DOMAIN handlers
    /\ \E i \in DOMAIN handlers[Started] : handlers[Started][i] = gameInfoChan

\* newSlpGame: the parser is not strict and gameInfoChan handles Started
newSlpGame ==
    /\ ~Options.Strict
    /\ ~panicked
    /\ ~GameExists
    /\ AddHandler(Started, gameInfoChan)

\* the values a read of g.gameInfo can observe: the initial nil, or what
\* the goroutine of newSlpGame has stored
ObservedGameInfo == { NULL, SlpGame_gameInfo }

\* the outcomes of return &*g.gameInfo, nil for the value observed: the
\* GameInfo, and for nil a run-time panic or, where the build folds &*x
\* into x, a nil GameInfo
Returns(observed) ==
    IF observed # NULL
    THEN { [ pc |-> "returned", result |-> observed, err |-> "nil" ] }
    ELSE { [ pc |-> "panic", result |-> NULL, err |-> "nil" ],
           [ pc |-> "returned", result |-> NULL, err |-> "nil" ] }

\* SlpGame.GetGameInfo up to the Reset of process(true): it returns
\* g.gameInfo if that is set and the game info of the parser if that is
\* complete, and processes the replay otherwise
GetGameInfoCall ==
    /\ GameExists
    /\ ~panicked
    /\ getGameInfo.pc \in { "idle", "returned" }
    /\ \E observed \in ObservedGameInfo :
          IF observed # NULL
          THEN /\ getGameInfo' = [ pc |-> "returned", result |-> observed,
                                   err |-> "nil" ]
               /\ discarded' = NULL
               /\ UNCHANGED << parserRest, SlpGame_gameInfo >>
          ELSE IF gameInfoComplete
          THEN /\ SlpGame_gameInfo' = gameInfo
               /\ getGameInfo' = [ pc |-> "returned", result |-> gameInfo,
                                   err |-> "nil" ]
               /\ discarded' = NULL
               /\ UNCHANGED parserRest
          ELSE /\ ResetParser
               /\ getGameInfo' = [ pc |-> "process", result |-> NULL,
                                   err |-> "nil" ]
               /\ UNCHANGED SlpGame_gameInfo
    /\ UNCHANGED << handlers, panicked, startedDelivered, readerVars, busVars,
                    gameVars, dolphinVars >>

\* process(true) is in ParseReplay
Processing == getGameInfo.pc = "process"

\* the goroutine of Trigger(Started, p.gameInfo) sends on gameInfoChan and
\* the goroutine of newSlpGame stores the payload in g.gameInfo
DeliverStarted ==
    /\ GameExists
    /\ ~panicked
    /\ startedCount > 0
    /\ ~startedDelivered
    /\ startedDelivered' = TRUE
    /\ SlpGame_gameInfo' = gameInfo
    /\ UNCHANGED << parserVars, getGameInfo, readerVars, busVars, gameVars,
                    dolphinVars >>

\* ParseReplay has returned: GetGameInfo returns its error, or g.gameInfo
GetGameInfoReturns ==
    /\ Processing
    /\ returned
    /\ ~panicked
    /\ IF err # "nil"
       THEN getGameInfo' = [ pc |-> "returned", result |-> NULL, err |-> err ]
       ELSE \E observed \in ObservedGameInfo :
               getGameInfo' \in Returns(observed)
    /\ panicked' = (getGameInfo'.pc = "panic")
    /\ discarded' = NULL
    /\ UNCHANGED << parserRest, handlers, SlpGame_gameInfo, startedDelivered,
                    readerVars, busVars, gameVars, dolphinVars >>

\* the events of a replay up to the completion of its game info: one
\* GameStart, then frame updates; the reader may stop after any event
NextGameInfo ==
    \/ newSlpGame
    \/ GetGameInfoCall
    \/ Processing /\ stream = "empty" /\ HandleGameStart
    \/ Processing /\ stream = "replay" /\ HandlePreFrameUpdate
    \/ Processing /\ stream = "replay" /\ HandlePostFrameUpdate
    \/ Processing /\ EndOfStream
    \/ DeliverStarted
    \/ GetGameInfoReturns

SpecGameInfo == Init /\ [][NextGameInfo]_vars

(***************************************************************************)
(* Properties.                                                             *)
(***************************************************************************)
\* the event handled last is a frame update or bookend of command
LastIs(command) ==
    /\ lastEvent # NULL
    /\ Deref(lastEvent).Command = command

LastPayload == Deref(lastEvent).Payload

\* the frame numbers finalized before the event handled last
FinalizedBefore ==
    LET k == Len(finalizedLog) - CountOf(emitted, FinalizedFrame)
    IN { finalizedLog[i] : i \in 1..k }

\* Started was emitted before the i-th emission of the event handled last
StartedBefore(i) ==
    \/ startedCount > CountOf(emitted, Started)
    \/ \E j \in 1..(i - 1) : emitted[j].event = Started

\* C1: between two Reset calls the frame numbers of successive
\* FinalizedFrame emissions are -123, -122, ... (each the previous one plus
\* 1), so no frame is finalized twice, and lastFinalizedFrame never
\* decreases, also when an already finalized frame is retransmitted.
C1_FinalizedStrictlyIncreasing ==
    /\ [](\A i \in DOMAIN finalizedLog : finalizedLog[i] = FirstFrame + i - 1)
    /\ [][Reset \/ lastFinalizedFrame' >= lastFinalizedFrame]_vars

\* a frame update for an already finalized frame has been handled
C1_Witness ==
    /\ LastIs(CmdPreFrameUpdate) \/ LastIs(CmdPostFrameUpdate)
    /\ hadEntry
    /\ LastPayload.FrameNumber \in FinalizedBefore
    /\ err = "nil"

\* C2: once a GameStart has been handled, whatever its replay version,
\* every Frame and every FinalizedFrame emission is preceded by the
\* Started emission.
C2_StartedPrecedesFrames ==
    gameInfo # NULL =>
        \A i \in DOMAIN emitted :
            emitted[i].event \in {Frame, FinalizedFrame} => StartedBefore(i)

\* C3: once Ended has been emitted, handling further events emits nothing
\* until Reset.
C3_NothingAfterEnded ==
    endedBefore => emitted = <<>>

\* C4: no RollbackFrame(n) is emitted after FinalizedFrame(n).
C4_RollbackPrecedesFinalized ==
    \A i \in DOMAIN emitted :
        emitted[i].event = RollbackFrame =>
            Deref(emitted[i].frame) \notin FinalizedBefore

\* C5: between two Reset calls Started is emitted at most once.
C5_StartedAtMostOnce ==
    startedCount <= 1

\* game info was complete, and a post-frame update with frame > -123 of a
\* replay older than 1.6.0 has been handled without a second Started
C5_Witness ==
    /\ LastIs(CmdPostFrameUpdate)
    /\ LastPayload.FrameNumber > -123
    /\ gameInfo # NULL
    /\ ~GTE(Deref(gameInfo).Version, <<1, 6, 0>>)
    /\ startedCount = 1
    /\ CountOf(emitted, Started) = 0

\* C6: a non-follower pre-frame update of the ledger's player whose frame
\* number had no stored entry emits no RollbackFrame and records nothing
\* in the ledger for that frame.
C6_FirstTransmissionIsNoRollback ==
    ( /\ LastIs(CmdPreFrameUpdate)
      /\ ~LastPayload.IsFollower
      /\ Rollbacks.playerIndex = Int8(LastPayload.PlayerIndex)
      /\ ~hadEntry )
    => /\ CountOf(emitted, RollbackFrame) = 0
       /\ LastPayload.FrameNumber \notin DOMAIN Rollbacks.Frames

\* C7: when the last pre-frame update of the ledger's player was not a
\* retransmission, the rollback run lengths sum to the rollback count.
C7_LengthsSumToCount ==
    ~lastPreRetransmitted => SumSeq(Rollbacks.Lengths) = Rollbacks.Count

\* C8: every snapshot of the rollback ledger, and the payload of the
\* RollbackFrame emission that delivered it, has the value the frame had
\* just before the pre-frame update was installed.
C8_SnapshotIsPriorState ==
    /\ \A n \in DOMAIN Rollbacks.Frames :
         \A i \in DOMAIN Rollbacks.Frames[n] :
            DeepFrame(Rollbacks.Frames[n][i], heapPlayers, heapFollowers)
              = ledgerPrior[n][i]
    /\ \A i \in DOMAIN emitted :
         emitted[i].event = RollbackFrame =>
            LET n == Deref(emitted[i].frame) IN
            DeepFrame(emitted[i].payload, heapPlayers, heapFollowers)
              = ledgerPrior[n][Len(ledgerPrior[n])]

\* C9: in strict mode with at most 2 players, every frame emitted with
\* FinalizedFrame holds a pre- and a post-frame update of every non-Empty
\* slot of the GameStart payload.
C9_FinalizedFramesAreComplete ==
    ( /\ Options.Strict
      /\ gameInfo # NULL
      /\ Len(Deref(gameInfo).Players) <= 2 )
    => \A i \in DOMAIN emitted :
         emitted[i].event = FinalizedFrame =>
            LET players == heapPlayers[Deref(emitted[i].payload.Players)] IN
            \A slot \in nonEmptySlots :
                /\ slot \in DOMAIN players
                /\ players[slot].Pre # NULL
                /\ players[slot].Post # NULL

\* C10: in strict mode and in the in-game scene, a FrameBookend whose
\* latestFinalizedFrame is at least -123 and older than frameNumber - 7
\* returns an error, leaves lastFinalizedFrame unchanged and emits no
\* FinalizedFrame.
C10_WindowViolationRejected ==
    [][ ( /\ nEvents' = nEvents + 1
          /\ Deref(lastEvent').Command = CmdFrameBookend
          /\ Options.Strict
          /\ gameInfo # NULL
          /\ Deref(gameInfo).MajorScene = InGameScene
          /\ Deref(lastEvent').Payload.LatestFinalizedFrame >= -123
          /\ Deref(lastEvent').Payload.LatestFinalizedFrame
               < Deref(lastEvent').Payload.FrameNumber - 7 )
        => /\ err' # "nil"
           /\ lastFinalizedFrame' = lastFinalizedFrame
           /\ CountOf(emitted', FinalizedFrame) = 0 ]_vars

\* the bookend was rejected although the frame it reports as finalized is
\* stored, complete and not yet finalized
C10_Witness ==
    /\ LastIs(CmdFrameBookend)
    /\ err = "RollbackWindowViolation"
    /\ lastFinalizedFrame < LastPayload.LatestFinalizedFrame
    /\ LastPayload.LatestFinalizedFrame \in DOMAIN Frames
    /\ LET players ==
             heapPlayers[Deref(Frames[LastPayload.LatestFinalizedFrame].Players)]
       IN /\ 0 \in DOMAIN players
          /\ players[0].Pre # NULL
          /\ players[0].Post # NULL

\* C11: in non-strict mode, once a GameStart has been handled, handling an
\* event never returns a MissingFrameUpdate or RollbackWindowViolation
\* error.
C11_NonStrictNeverFails ==
    (~Options.Strict /\ gameInfo # NULL) =>
        err \notin {"MissingFrameUpdate", "RollbackWindowViolation"}

\* non-strict mode: a bookend outside the 7-frame window was handled without
\* error and finalized a frame that lacks its post-frame update
C11_Witness ==
    /\ ~Options.Strict
    /\ LastIs(CmdFrameBookend)
    /\ ~panicked
    /\ Deref(gameInfo).MajorScene = InGameScene
    /\ LastPayload.LatestFinalizedFrame >= -123
    /\ LastPayload.LatestFinalizedFrame
         < LastPayload.FrameNumber - MaxRollbackFrames
    /\ err = "nil"
    /\ \E i \in DOMAIN emitted :
         /\ emitted[i].event = FinalizedFrame
         /\ LET players == heapPlayers[Deref(emitted[i].payload.Players)]
            IN \E p \in DOMAIN players : players[p].Post = NULL

\* the frame numbers for which a pre- or post-frame update is stored
ReceivedFrames ==
    { n \in DOMAIN Frames :
        \/ DOMAIN heapPlayers[Deref(Frames[n].Players)] # {}
        \/ DOMAIN heapFollowers[Deref(Frames[n].Followers)] # {} }

\* C12: after a GameEnd handled without error, if every frame number from
\* -123 up to the highest one received is stored, every received frame has
\* been finalized.
C12_GameEndFinalizesAllFrames ==
    ( /\ LastIs(CmdGameEnd)
      /\ err = "nil"
      /\ ~panicked
      /\ \A n \in ReceivedFrames : \A k \in FirstFrame..n : k \in DOMAIN Frames )
    => \A n \in ReceivedFrames : n <= lastFinalizedFrame

\* the step handles an event (it is no Reset), namely StepEvent
HandledStep == nEvents' = nEvents + 1

StepEvent == Deref(lastEvent')

\* C13: the GameStart of a replay emits Started if and only if its version
\* is >= 1.6.0; for a version below 1.6.0 an event after it emits Started
\* if and only if it is the first PostFrameUpdate with frame > -123.
C13_StartedWhenInfoCompletes ==
    [][ HandledStep =>
          /\ (StepEvent.Command = CmdGameStart /\ stream = "empty") =>
               ( CountOf(emitted', Started) > 0
                 <=> VersionCompare(StepEvent.Payload.Version, <<1, 6, 0>>) >= 0 )
          /\ ( /\ StepEvent.Command # CmdGameStart
               /\ stream = "replay"
               /\ VersionCompare(Deref(gameInfo).Version, <<1, 6, 0>>) < 0 ) =>
               ( CountOf(emitted', Started) > 0
                 <=> (IsLatePost(StepEvent) /\ ~latePostSeen) ) ]_vars

\* C13 as amended: the same, where the first PostFrameUpdate with
\* frame > -123 emits Started if and only if it is handled without error.
C13_StartedWhenInfoCompletes_Amended ==
    [][ HandledStep =>
          /\ (StepEvent.Command = CmdGameStart /\ stream = "empty") =>
               ( CountOf(emitted', Started) > 0
                 <=> VersionCompare(StepEvent.Payload.Version, <<1, 6, 0>>) >= 0 )
          /\ ( /\ StepEvent.Command # CmdGameStart
               /\ stream = "replay"
               /\ VersionCompare(Deref(gameInfo).Version, <<1, 6, 0>>) < 0 ) =>
               ( CountOf(emitted', Started) > 0
                 <=> ( /\ IsLatePost(StepEvent)
                       /\ ~latePostSeen
                       /\ err' = "nil" ) ) ]_vars

\* a replay older than 1.6.0: Started was emitted by the first post-frame
\* update with frame > -123, after a post-frame update of frame -123
C13_Witness ==
    /\ LastIs(CmdPostFrameUpdate)
    /\ LastPayload.FrameNumber > -123
    /\ stream = "replay"
    /\ VersionCompare(Deref(gameInfo).Version, <<1, 6, 0>>) < 0
    /\ CountOf(emitted, Started) = 1
    /\ startedCount = 1
    /\ err = "nil"
    /\ FirstFrame \in DOMAIN Frames
    /\ \E p \in DOMAIN heapPlayers[Deref(Frames[FirstFrame].Players)] :
         heapPlayers[Deref(Frames[FirstFrame].Players)][p].Post # NULL

\* C14: for a replay of version 2.2.0 or later a pre- or post-frame update
\* emits neither Frame nor FinalizedFrame; for an older version it emits
\* Frame once and, when it returns no error and the frames before
\* frameNumber are all stored, has finalized through frameNumber - 1.
C14_BookendedFromVersion220 ==
    ( /\ LastIs(CmdPreFrameUpdate) \/ LastIs(CmdPostFrameUpdate)
      /\ gameInfo # NULL )
    => IF VersionCompare(Deref(gameInfo).Version, <<2, 2, 0>>) >= 0
       THEN /\ CountOf(emitted, Frame) = 0
            /\ CountOf(emitted, FinalizedFrame) = 0
       ELSE /\ CountOf(emitted, Frame) = 1
            /\ ( /\ err = "nil"
                 /\ \A n \in FirstFrame..(LastPayload.FrameNumber - 1) :
                        n \in DOMAIN Frames )
               => lastFinalizedFrame >= LastPayload.FrameNumber - 1

\* frame n is fully received: for a bookended version (>= 2.2.0) its
\* FrameBookend was received, for an older one every non-Empty slot has its
\* pre- and its post-frame update
FullyReceived(n) ==
    /\ n \in DOMAIN Frames
    /\ IF VersionCompare(Deref(gameInfo).Version, <<2, 2, 0>>) >= 0
       THEN Frames[n].IsTransferComplete
       ELSE LET players == heapPlayers[Deref(Frames[n].Players)] IN
            \A slot \in nonEmptySlots :
                /\ slot \in DOMAIN players
                /\ players[slot].Pre # NULL
                /\ players[slot].Post # NULL

\* C15: when ParseReplay returns nil for a replay without a GameEnd event,
\* Ended has not been emitted and every fully received frame n, the frames
\* from -123 to n being stored, has been finalized.
C15_EndOfStreamFinalizes ==
    ( /\ returned
      /\ err = "nil"
      /\ stream = "replay"
      /\ GameEnd = NULL )
    => /\ ~endedBefore
       /\ CountOf(emitted, Ended) = 0
       /\ \A n \in DOMAIN Frames :
            ( /\ FullyReceived(n)
              /\ \A k \in FirstFrame..n : k \in DOMAIN Frames )
            => n <= lastFinalizedFrame

\* the strict-mode verdict the claim gives for the stored frame players of
\* a frame: "error" when a non-Empty slot is present without its pre- or
\* post-frame update, or is absent from a game of at most 2 players
StrictVerdict(players) ==
    IF \E slot \in nonEmptySlots :
          \/ /\ slot \in DOMAIN players
             /\ players[slot].Pre = NULL \/ players[slot].Post = NULL
          \/ /\ slot \notin DOMAIN players
             /\ Cardinality(nonEmptySlots) <= 2
    THEN "error"
    ELSE "finalized"

\* C16: in strict mode a frame is emitted with FinalizedFrame only if no
\* non-Empty slot is present without pre or post and, for at most 2 players,
\* no non-Empty slot is absent; and MissingFrameUpdate is returned only for
\* a frame with such a slot (an absent slot of a game of more than 2
\* players does not stop the finalization).
C16_StrictPresenceCheck ==
    ( /\ Options.Strict
      /\ gameInfo # NULL
      /\ ~panicked )
    => /\ \A i \in DOMAIN emitted :
            emitted[i].event = FinalizedFrame =>
                StrictVerdict(heapPlayers[Deref(emitted[i].payload.Players)])
                  = "finalized"
       /\ err = "MissingFrameUpdate" =>
            StrictVerdict(
                heapPlayers[Deref(Frames[lastFinalizedFrame + 1].Players)])
              = "error"

\* the slots of the last GameStart payload that are not Empty, in slot order
RECURSIVE NonEmptySlotsFrom(_)
NonEmptySlotsFrom(slot) ==
    IF slot > 3
    THEN <<>>
    ELSE IF Deref(lastGameStart).Players[slot + 1].PlayerType # Empty
    THEN <<slot>> \o NonEmptySlotsFrom(slot + 1)
    ELSE NonEmptySlotsFrom(slot + 1)

\* C17: gameInfo.players holds no player of type Empty, and its k-th
\* player is the k-th non-Empty slot of the last GameStart payload (its
\* character possibly patched by a post-frame update).
C17_PlayersAreNonEmptySlots ==
    gameInfo # NULL =>
        LET players == Deref(gameInfo).Players
            slots == NonEmptySlotsFrom(0)
        IN /\ \A k \in DOMAIN players : players[k].PlayerType # Empty
           /\ Len(players) = Len(slots)
           /\ \A k \in DOMAIN players :
                LET sent == Deref(lastGameStart).Players[slots[k] + 1] IN
                /\ players[k].PlayerType = sent.PlayerType
                /\ players[k].Index = sent.Index
                /\ players[k].Port = sent.Port
                /\ players[k].CharacterID \in {sent.CharacterID, 18, 19}

\* the GameStart payload has an Empty slot between non-Empty ones, and a
\* frame update has been handled since
C17_Witness ==
    /\ gameInfo # NULL
    /\ NonEmptySlotsFrom(0) = <<0, 2, 3>>
    /\ Len(Deref(gameInfo).Players) = 3
    /\ LastIs(CmdPostFrameUpdate)

\* the frame-related fields have the values NewSlpParser gives them
FreshParser ==
    /\ Frames = EmptyMap
    /\ Rollbacks.Frames = EmptyMap
    /\ Rollbacks.Count = 0
    /\ Rollbacks.Lengths = <<>>
    /\ Rollbacks.playerIndex = -1
    /\ ~Rollbacks.lastFrameWasRollback
    /\ Rollbacks.currentRollbackLength = 0
    /\ gameInfo = NULL
    /\ GameEnd = NULL
    /\ latestFrameIndex = -124
    /\ lastFinalizedFrame = -124
    /\ ~gameInfoComplete

\* C18: a Reset leaves every frame-related field with the value of a newly
\* made parser and leaves the options and the handler channels as they
\* were, so the pass that follows starts from the state the first pass
\* started from.
C18_ResetRestoresFreshState ==
    [][ discarded' # NULL =>
          /\ FreshParser'
          /\ Options' = Options
          /\ handlers' = handlers ]_vars

\* Reset has discarded a pass that stored a frame, latched the ledger,
\* completed the game info, finalized a frame and ended the game, with a
\* handler channel attached
C18_Witness ==
    /\ discarded # NULL
    /\ Deref(discarded).frames > 0
    /\ Deref(discarded).ledgerPlayer # -1
    /\ Deref(discarded).lastFinalizedFrame > -124
    /\ Deref(discarded).complete
    /\ Deref(discarded).ended
    /\ handlers # EmptyMap
    /\ FreshParser

\* C19: after the pass GameStart(3.0.0, one Human in slot 0),
\* PreFrameUpdate(-123, player 0), PostFrameUpdate(-123, player 0,
\* internal character 0x13), FrameBookend(-123, -123), GameEnd, the
\* character of the player is 0x12 and the emissions were Started,
\* Frame(-123), FinalizedFrame(-123), Ended, in this order.
C19_SingleFrameBookended ==
    ( /\ nEvents = 5
      /\ LastIs(CmdGameEnd)
      /\ Deref(lastGameStart).Version = <<3, 0, 0>>
      /\ NonEmptySlotsFrom(0) = <<0>>
      /\ Deref(lastGameStart).Players[1].PlayerType = Human
      /\ DOMAIN Frames = {-123}
      /\ Frames[-123].IsTransferComplete
      /\ DOMAIN heapPlayers[-123] = {0}
      /\ DOMAIN heapFollowers[-123] = {}
      /\ heapPlayers[-123][0].Pre # NULL
      /\ heapPlayers[-123][0].Post # NULL
      /\ Deref(heapPlayers[-123][0].Post).InternalCharacterID = 19 )
    => /\ Deref(gameInfo).Players[1].CharacterID = 18
       /\ emittedLog = << [ event |-> Started, frame |-> NULL ],
                          [ event |-> Frame, frame |-> Ptr(-123) ],
                          [ event |-> FinalizedFrame, frame |-> Ptr(-123) ],
                          [ event |-> Ended, frame |-> NULL ] >>


\* C20: when the reader meets a command byte that is absent from the
\* payload sizes after frames were assembled, ParseReplay returns a non-nil
\* error without crashing and the frame map is left as it was.
C20_UnknownCommandSurfaces ==
    [][ ( /\ unknownCommand'
          /\ ~unknownCommand
          /\ Frames # EmptyMap )
        => /\ returned'
           /\ err' # "nil"
           /\ ~panicked'
           /\ Frames' = Frames ]_vars


\* the results the goroutine of YieldEvents has sent so far
AllResults == received \o channel.sendQueue

\* the events of the raw region whose command is included
IncludedEvents ==
    LET Included(event) ==
            /\ event.Command \in DOMAIN Deref(reader).include
            /\ Deref(reader).include[event.Command]
    IN  SelectSeq(rawEvents, Included)

\* C21: when the goroutine of YieldEvents has ended under a stop predicate
\* that never returns true, it has sent exactly the events of the raw
\* region whose command is included, in stream order, and it has read no
\* command byte at or beyond offset RawStart + RawLength.
C21_ReaderEmitsIncludedEvents ==
    ( /\ yield.pc = "done"
      /\ yield.stopOn = 0 )
    => /\ AllResults = [ i \in DOMAIN IncludedEvents |->
                           [ Event |-> Ptr(IncludedEvents[i]),
                             Error |-> "nil" ] ]
       /\ \A i \in DOMAIN commandReads :
             commandReads[i] < RawStart + Deref(reader).RawLength


\* C22: a call SetInclude(command, flag) with a command other than 0x10 and
\* 0x35..0x3D returns an error and leaves the include set as it was; with a
\* command of that set it returns no error and changes the include flag of
\* that command alone, to flag.
C22_SetIncludeValidates ==
    lastSetInclude # NULL =>
      LET call == Deref(lastSetInclude)
          include == Deref(reader).include
          valid == call.command = 16 \/ call.command \in 53..61
      IN  IF valid
          THEN /\ call.err = "nil"
               /\ DOMAIN include = DOMAIN call.before \cup { call.command }
               /\ include[call.command] = call.flag
               /\ \A c \in DOMAIN call.before :
                     c # call.command => include[c] = call.before[c]
          ELSE /\ call.err # "nil"
               /\ include = call.before

\* a call of SetInclude with 0x3E was refused after an earlier call was
\* accepted and changed the include set
C22_Witness ==
    /\ lastSetInclude # NULL
    /\ Deref(lastSetInclude).err # "nil"
    /\ Deref(lastSetInclude).command = 62
    /\ Deref(reader).include # DefaultInclude


\* the result carries an event for which the stop predicate returns true
IsStopResult(result) ==
    /\ result.Event # NULL
    /\ Deref(result.Event).Command = yield.stopOn

\* C23: a result whose event makes the stop predicate return true is the
\* last result the goroutine of YieldEvents sends: the goroutine has ended
\* and closed its side of the channel, and the receiving side is closed
\* only after every result sent has been received.
C23_StopEndsTheStream ==
    /\ \A i \in DOMAIN AllResults :
          IsStopResult(AllResults[i])
            => /\ i = Len(AllResults)
               /\ yield.pc = "done"
               /\ channel.inClosed
    /\ channel.outClosed => /\ channel.sendQueue = <<>>
                            /\ channel.inClosed

\* the consumer has received a stop event as its last result, the channel
\* is closed, and the raw region held an included event after it
C23_Witness ==
    /\ channel.outClosed
    /\ received # <<>>
    /\ IsStopResult(received[Len(received)])
    /\ Len(received) < Len(IncludedEvents)
    /\ IncludedEvents = rawEvents


\* C24: every subscriber receives the values of successive Trigger calls
\* in the order of the calls, whatever the order in which the goroutines
\* of Trigger get to send.
C24_DeliveryInEmissionOrder ==
    \A h \in Channels :
       \A i, j \in DOMAIN inbox[h] :
          ( /\ i < j
            /\ inbox[h][i].event = inbox[h][j].event )
          => inbox[h][i].payload <= inbox[h][j].payload


\* C25: a Trigger call is never held up by the subscribers: whatever
\* goroutines are still waiting to send and whichever subscribers have
\* stopped receiving, the parser can make its next Trigger call (as long
\* as the bound on goroutines leaves room for it).
C25_TriggerNeverBlocks ==
    ( /\ ~panicked
      /\ Len(triggerLog) < MaxGoroutines
      /\ \A event \in BusEvents :
            SpawnedCount + ToSpawn(event) <= MaxGoroutines )
    => ENABLED TriggerCall

\* two Trigger calls were made for a subscriber that has stopped receiving
\* and has received nothing: the goroutines of both calls are waiting
C25_Witness ==
    /\ "other" \notin listening
    /\ inbox["other"] = <<>>
    /\ Len(triggerLog) >= 2
    /\ \E g1, g2 \in goroutines :
          /\ g1.h = "other" /\ g1.payload = 1
          /\ g2.h = "other" /\ g2.payload = 2


\* the number of times a subscriber is in a handler list, and the number
\* of times it has received the value of the n-th Trigger call
Registrations(list, h) == Cardinality({ i \in DOMAIN list : list[i] = h })

Receptions(h, n) ==
    Cardinality({ i \in DOMAIN inbox[h] : inbox[h][i].payload = n })

\* C26: the value of every Trigger call is received by each subscriber
\* that was in the handler list of the event at the call, once for each
\* place it had in the list and never more often, and is received in the
\* end if the subscriber keeps receiving, also when the subscriber is
\* removed from the list after the call.
C26_EveryEmissionDelivered ==
    /\ [](\A n \in DOMAIN triggerLog, h \in Channels :
             Receptions(h, n) <= Registrations(triggerLog[n].handlers, h))
    /\ \A g \in GoroutineSpace :
          (g \in goroutines) ~> (g \notin goroutines \/ g.h \notin listening)

\* the same, for the runs in which the program does not crash
C26_DeliveredUnlessCrashed ==
    /\ [](\A n \in DOMAIN triggerLog, h \in Channels :
             Receptions(h, n) <= Registrations(triggerLog[n].handlers, h))
    /\ \A g \in GoroutineSpace :
          (g \in goroutines)
             ~> (g \notin goroutines \/ g.h \notin listening \/ panicked)


\* a handler list without its i-th channel
Without(list, i) == SubSeq(list, 1, i - 1) \o SubSeq(list, i + 1, Len(list))

\* C27: a call RemoveHandler(event, toRemove) does not fail; it leaves the
\* handler list of the event as it was when the channel is not in it, and
\* otherwise takes one occurrence of the channel out of the list and keeps
\* the other channels in their order, also when the channel is in the list
\* more than once.
C27_RemoveHandlerRemovesOne ==
    [][ removeLog' # removeLog =>
          LET call == removeLog'[Len(removeLog')]
              after == IF call.event \in DOMAIN handlers'
                       THEN handlers'[call.event] ELSE <<>>
          IN  /\ ~panicked'
              /\ IF Registrations(call.before, call.toRemove) = 0
                 THEN after = call.before
                 ELSE \E i \in DOMAIN call.before :
                         /\ call.before[i] = call.toRemove
                         /\ after = Without(call.before, i) ]_vars


\* the handler list of every parser event
AllLists(h) ==
    [ event \in ParserEvents |->
        IF event \in DOMAIN h THEN h[event] ELSE <<>> ]

\* C28: after AddCalculator(c) followed by RemoveCalculator(c) or by
\* RemoveAllCalculators, the handler lists of the parser are the lists
\* before the add, and no channel of c that was in no list before the add
\* is in a list.
C28_RemoveUndoesAdd ==
    LET n == Len(gameCalls)
    IN  ( /\ n >= 2
          /\ ~panicked
          /\ gameCalls[n - 1].op = "AddCalculator"
          /\ \/ gameCalls[n].op = "RemoveAllCalculators"
             \/ /\ gameCalls[n].op = "RemoveCalculator"
                /\ gameCalls[n].c = gameCalls[n - 1].c )
        => LET c == gameCalls[n - 1].c
               before == AllLists(gameCalls[n - 1].before)
               now == AllLists(handlers)
           IN  /\ now = before
               /\ \A event \in DOMAIN getChannels(c) :
                    \A i \in DOMAIN getChannels(c)[event] :
                       ( \A k \in DOMAIN before[event] :
                            before[event][k] # getChannels(c)[event][i] )
                       => \A k \in DOMAIN now[event] :
                             now[event][k] # getChannels(c)[event][i]


\* the last step received a start_game, end_game, menu_event or game_event
\* message with a payload
CursorMessage ==
    /\ lastMessage # NULL
    /\ Deref(lastMessage).message.Type
         \in { StartGame, EndGame, MenuEvent, GameEvent }
    /\ Deref(lastMessage).message.Payload # ""

\* the types and the payloads of the events the last step sent
SentTypes == { lastSent[i].Type : i \in DOMAIN lastSent }

SentErrors == { lastSent[i].Payload : i \in { k \in DOMAIN lastSent :
                                               lastSent[k].Type = "error" } }

\* C29 as stated: for a start_game, end_game, menu_event or game_event
\* message with a payload, an Error event is sent if and only if the
\* cursor of the message differs from the running cursor, and the running
\* cursor is the next_cursor of the message afterwards.
C29_ErrorIffCursorDiffers ==
    CursorMessage =>
      /\ ("error" \in SentTypes)
           <=> (Deref(lastMessage).message.Cursor # Deref(lastMessage).before)
      /\ GameCursor = Deref(lastMessage).message.NextCursor

\* C29, amended: the Error event for the unexpected cursor is sent if and
\* only if the cursor of the message differs from the running cursor, and
\* the running cursor is the next_cursor of the message afterwards.
C29_CursorErrorIffCursorDiffers ==
    CursorMessage =>
      /\ ("unexpected game data cursor" \in SentErrors)
           <=> (Deref(lastMessage).message.Cursor # Deref(lastMessage).before)
      /\ GameCursor = Deref(lastMessage).message.NextCursor

\* a game_event whose cursor is not the running cursor was received after
\* an earlier message had moved the running cursor off 0: the Error event
\* was sent and the running cursor has followed next_cursor
C29_Witness ==
    /\ CursorMessage
    /\ Deref(lastMessage).message.Type = GameEvent
    /\ Deref(lastMessage).before = 2
    /\ Deref(lastMessage).message.Cursor = 1
    /\ "unexpected game data cursor" \in SentErrors
    /\ GameCursor = 1


\* C30: when handling an event leaves frame lastFinalizedFrame + 1 absent
\* from the frame map, finalization stops there: no FinalizedFrame is
\* emitted, lastFinalizedFrame stays as it was and no finalization error is
\* returned, whatever higher frames are stored; and at all times every
\* frame up to lastFinalizedFrame is in the frame map.
C30_GapHaltsFinalization ==
    [][ /\ ( /\ HandledStep
             /\ (lastFinalizedFrame + 1) \notin DOMAIN Frames' )
           => /\ lastFinalizedFrame' = lastFinalizedFrame
              /\ CountOf(emitted', FinalizedFrame) = 0
              /\ err' # "MissingFrameUpdate"
        /\ \A n \in (NoFrameYet + 1)..lastFinalizedFrame' :
              n \in DOMAIN Frames' ]_vars

\* a strict parser handled GameEnd with a frame stored above the missing
\* frame lastFinalizedFrame + 1: nothing was finalized, no error
C30_Witness ==
    /\ Options.Strict
    /\ LastIs(CmdGameEnd)
    /\ (lastFinalizedFrame + 1) \notin DOMAIN Frames
    /\ \E f \in DOMAIN Frames : f > lastFinalizedFrame + 1
    /\ latestFrameIndex > lastFinalizedFrame + 1
    /\ CountOf(emitted, FinalizedFrame) = 0
    /\ err = "nil"

\* the larger of two frame numbers
MaxOf(a, b) == IF a >= b THEN a ELSE b

\* the frame the bookend payload is to finalize through, for game info info
BookendTarget(info, payload) ==
    IF info.MajorScene = 8 /\ payload.LatestFinalizedFrame >= -123
    THEN payload.LatestFinalizedFrame
    ELSE payload.FrameNumber - 7

\* the step handles a FrameBookend with game info present
BookendStep ==
    /\ HandledStep
    /\ StepEvent.Command = CmdFrameBookend
    /\ gameInfo # NULL

\* the frames after lastFinalizedFrame up to the target of the bookend are
\* stored once the bookend is handled, and no strict check has failed
BookendUnhindered ==
    /\ \A n \in (lastFinalizedFrame + 1)..BookendTarget(Deref(gameInfo),
                                                        StepEvent.Payload) :
           n \in DOMAIN Frames'
    /\ err' = "nil"

\* C31: handling FrameBookend(frameNumber, latestFinalizedFrame) never
\* finalizes a frame beyond its target (latestFinalizedFrame in the in-game
\* scene when it is >= -123, frameNumber - 7 otherwise): lastFinalizedFrame
\* is afterwards at most the maximum of its previous value and the target,
\* and equals the target when the frames in between are stored and no
\* strict check fails.
C31_BookendFinalizesToTarget ==
    [][ BookendStep =>
          LET target == BookendTarget(Deref(gameInfo), StepEvent.Payload) IN
          /\ lastFinalizedFrame' <= MaxOf(lastFinalizedFrame, target)
          /\ BookendUnhindered => lastFinalizedFrame' = target ]_vars

\* C31 as amended: the same, where lastFinalizedFrame equals the maximum of
\* its previous value and the target when the frames in between are stored
\* and no strict check fails (a bookend whose target is older than the
\* last finalized frame leaves it as it is).
C31_BookendFinalizesToTarget_Amended ==
    [][ BookendStep =>
          LET target == BookendTarget(Deref(gameInfo), StepEvent.Payload) IN
          /\ lastFinalizedFrame' <= MaxOf(lastFinalizedFrame, target)
          /\ BookendUnhindered =>
                lastFinalizedFrame' = MaxOf(lastFinalizedFrame, target) ]_vars

\* outside the in-game scene a bookend has finalized the two stored frames
\* up to its frame number minus 7, and not the frame it bookends
C31_Witness ==
    /\ LastIs(CmdFrameBookend)
    /\ gameInfo # NULL
    /\ Deref(gameInfo).MajorScene # InGameScene
    /\ err = "nil"
    /\ CountOf(emitted, FinalizedFrame) = 2
    /\ lastFinalizedFrame = LastPayload.FrameNumber - 7
    /\ LastPayload.FrameNumber \in DOMAIN Frames

\* the character id the claim gives the player of slot slot, whose
\* character id was characterID, after the post-frame update payload
PatchedCharacter(slot, characterID, payload) ==
    IF slot = payload.PlayerIndex /\ payload.InternalCharacterID = 7
    THEN 19
    ELSE IF slot = payload.PlayerIndex /\ payload.InternalCharacterID = 19
    THEN 18
    ELSE characterID

\* C32: while game info is not complete, a PostFrameUpdate with
\* frame <= -123 and internal character 0x07 (resp. 0x13) sets the character
\* id to 0x13 (resp. 0x12) only for the game-info player whose slot equals
\* the update's player index, and leaves the character id of every other
\* player unchanged.
C32_PatchOnlyMatchingPlayer ==
    [][ ( /\ HandledStep
          /\ StepEvent.Command = CmdPostFrameUpdate
          /\ StepEvent.Payload.FrameNumber <= -123
          /\ gameInfo # NULL
          /\ ~gameInfoComplete )
        => LET slots == NonEmptySlotsFrom(0)
               before == Deref(gameInfo).Players
               after == Deref(gameInfo').Players
           IN \A k \in DOMAIN before :
                after[k].CharacterID =
                    PatchedCharacter(slots[k], before[k].CharacterID,
                                     StepEvent.Payload) ]_vars

\* the step handles a FrameBookend of frame n
BookendOf(n) ==
    /\ HandledStep
    /\ StepEvent.Command = CmdFrameBookend
    /\ StepEvent.Payload.FrameNumber = n

\* the step handles a pre- or post-frame update of a replay above 2.2.0
LateVersionUpdate ==
    /\ HandledStep
    /\ StepEvent.Command \in { CmdPreFrameUpdate, CmdPostFrameUpdate }
    /\ gameInfo # NULL
    /\ VersionCompare(Deref(gameInfo).Version, <<2, 2, 0>>) > 0

\* C33: a stored frame has IsTransferComplete true only if a FrameBookend
\* for that frame number has been handled (the flag is false when the frame
\* is first stored and only the frame's bookend turns it from false to
\* true); for versions above 2.2.0 a pre- or post-frame update of the frame
\* sets the flag back to false, where it stays until the next bookend of
\* the frame.
C33_TransferCompleteOnlyByBookend ==
    [][ /\ \A n \in DOMAIN Frames' :
             Frames'[n].IsTransferComplete =>
                 \/ n \in DOMAIN Frames /\ Frames[n].IsTransferComplete
                 \/ BookendOf(n)
        /\ LateVersionUpdate =>
             ~Frames'[StepEvent.Payload.FrameNumber].IsTransferComplete ]_vars

\* a replay above 2.2.0: a frame update of a frame whose bookend was handled
\* before has set the flag of the frame back to false
C33_Witness ==
    /\ LastIs(CmdPreFrameUpdate) \/ LastIs(CmdPostFrameUpdate)
    /\ gameInfo # NULL
    /\ VersionCompare(Deref(gameInfo).Version, <<2, 2, 0>>) > 0
    /\ \E i \in DOMAIN emittedLog :
          emittedLog[i] = [ event |-> Frame,
                            frame |-> Ptr(LastPayload.FrameNumber) ]
    /\ ~Frames[LastPayload.FrameNumber].IsTransferComplete

\* s is an initial part of t
IsPrefix(s, t) ==
    /\ Len(s) <= Len(t)
    /\ \A i \in DOMAIN s : s[i] = t[i]

\* C34: the unbounded channel delivers on its output exactly the items sent
\* on its input, in the same order, without loss or duplication (what the
\* consumer has received is an initial part of what was sent, and all of it
\* once the output is closed); a send on the input is accepted without
\* waiting for the consumer to receive; and once the input is closed and
\* the consumer keeps receiving, the output is closed after all queued
\* items have been delivered.
C34_UnboundedChannelIsFifo ==
    /\ [](IsPrefix(received, sentLog))
    /\ [](channel.outClosed =>
            /\ channel.inClosed
            /\ received = sentLog)
    /\ [](yield.pc = "loop" => ENABLED YieldLoop)
    /\ (channel.inClosed ~> channel.outClosed)

\* the input was closed while two items the consumer had not received were
\* queued behind one it had
C34_Witness ==
    /\ channel.inClosed
    /\ ~channel.outClosed
    /\ Len(channel.sendQueue) >= 2
    /\ Len(received) >= 1
    /\ sentLog = received \o channel.sendQueue

\* ParseReplay has met a failure: it has received a result the reader sent
\* for a failure, or handleEvent has returned an error
FailureMet ==
    \/ \E i \in DOMAIN received : received[i].Event = NULL
    \/ err # "nil"

\* C35: when an event result carries an error or handling an event fails,
\* ParseReplay applies no later event to the parser state, drains the
\* remaining results until the channel is closed, and eventually returns
\* that first error; the reader goroutine and the buffering goroutine have
\* terminated by then.  When no error occurs ParseReplay returns nil after
\* the channel is closed.
C35_FirstErrorReturnedAfterDrain ==
    /\ [][Flushing => (UNCHANGED parserState /\ err' = err)]_vars
    /\ [](returned =>
            /\ yield.pc = "done"
            /\ channel.outClosed
            /\ channel.sendQueue = <<>>
            /\ received = sentLog)
    /\ [](returned => (err # "nil" <=> FailureMet))
    /\ (FailureMet ~> (returned /\ err # "nil"))
    /\ (yield.pc = "loop" ~> returned)

\* the same where a run in which the program has crashed (a nil event or a
\* nil game info was dereferenced) is set aside
C35_ReturnedUnlessCrashed ==
    /\ [][Flushing => (UNCHANGED parserState /\ err' = err)]_vars
    /\ [](returned =>
            /\ yield.pc = "done"
            /\ channel.outClosed
            /\ channel.sendQueue = <<>>
            /\ received = sentLog)
    /\ [](returned => (err # "nil" <=> FailureMet))
    /\ (FailureMet ~> ((returned /\ err # "nil") \/ panicked))
    /\ (yield.pc = "loop" ~> (returned \/ panicked))

\* ParseReplay has returned the error of handleEvent after it has dropped
\* an event that was sent behind the failing one
C35_FlushedWitness ==
    /\ returned
    /\ err = "MissingFrameUpdate"
    /\ Len(received) > nEvents
    /\ received[Len(received)].Event # NULL

\* C36: SlpGame.GetGameInfo on a replay whose game info completes returns a
\* non-nil GameInfo under every interleaving of the parser, the goroutine
\* that delivers Started and the goroutine that consumes the game-info
\* channel: it never dereferences a nil game info.
C36_GetGameInfoNeverNil ==
    ( /\ getGameInfo.pc \in { "returned", "panic" }
      /\ getGameInfo.err = "nil"
      /\ gameInfoComplete )
    => /\ getGameInfo.pc = "returned"
       /\ getGameInfo.result # NULL

\* GetGameInfo has returned the game info the goroutines have delivered
\* while the replay was processed
C36_DeliveredWitness ==
    /\ getGameInfo.pc = "returned"
    /\ getGameInfo.result # NULL
    /\ startedDelivered
    /\ nEvents > 0

\* C37: for every order of events, handling an event never fails by
\* dereferencing an absent game info: an event handled before any GameStart
\* (or after Reset), a PostFrameUpdate with frame <= -123, a FrameBookend
\* or a strict-mode finalization among them, is processed without a crash.
C37_NoNilGameInfoDereference ==
    (lastEvent # NULL /\ gameInfo = NULL) => ~panicked

\* C38: when handling GameEnd fails (the strict-mode finalization of the
\* remaining frames returns a MissingFrameUpdate error), the parser does
\* not emit Ended and does not store the GameEnd payload.
C38_FailedGameEndLeavesNoTrace ==
    [][ ( /\ HandledStep
          /\ StepEvent.Command = CmdGameEnd
          /\ err' # "nil" )
        => /\ CountOf(emitted', Ended) = 0
           /\ GameEnd' = GameEnd ]_vars

====
